---- MODULE Spec2Model ----
(***************************************************************************)
(* Request-handling core of the HTTP front end and the velocypack parts    *)
(* it builds on.                                                           *)
(*                                                                         *)
(*   SpecJob      HttpServerJob: work / cleanup on a dispatcher worker     *)
(*                against beginShutdown and the destruction of the task;   *)
(*                SpecJobLive adds the fairness of the two threads         *)
(*   SpecQuery    RestSimpleHandler: registerQuery / unregisterQuery /     *)
(*                cancelQuery around the execution of a query              *)
(*   SpecSched    SchedulerThread: registerTask / unregisterTask /         *)
(*                destroyTask against run(); SpecSchedLive adds the        *)
(*                fairness of the loop thread                              *)
(*   SpecWork     WorkMonitor and HandlerWorkStack                         *)
(*   SpecDisp     the bounded dispatcher queue                             *)
(*   SpecAsync    AsyncJobManager: put / finish / poll / fetch / cancel    *)
(*   SpecCounter  BenchmarkCounter::next                                   *)
(*   SpecLookup   RestSimpleHandler::lookupByKeys                          *)
(*   SpecKill     RestQueryHandler::deleteQuery                            *)
(*   SpecIndex    the MVCC hash index as its tests fix it                  *)
(*   SpecMerge    velocypack Collection::merge                             *)
(*   SpecInt      velocypack Builder::addInt and Slice::getInt             *)
(*   SpecBuffer   velocypack Buffer<T>                                     *)
(*                                                                         *)
(* The machines share no state; each specification steps one of them and   *)
(* leaves the variables of the others at their initial value.              *)
(***************************************************************************)
EXTENDS Integers, Sequences, FiniteSets, TLC

NULL == "nullptr"

(***************************************************************************)
(* HttpServerJob                                                           *)
(***************************************************************************)
VARIABLES
  ctorTask,      \* the task argument of the constructor (history)
  task,          \* HttpServerJob::_task
  handler,       \* HttpServerJob::_handler
  refCount,      \* HttpServerJob::_refCount
  isInCleanup,   \* HttpServerJob::_isInCleanup
  detached,      \* HttpServerJob::_isDetached
  pcW,           \* position of the dispatcher worker in work() / cleanup()
  pcS,           \* position of the task-destruction path in beginShutdown()
  seenTask,      \* the value of _task that cleanup read at line 171
  taskAlive,     \* the CommTask object exists
  taskHandler,   \* the handler attached to the CommTask by setHandler
  calls,         \* calls made on the task by cleanup, in order (history)
  prepareCnt,    \* number of prepareExecute calls
  executeCnt,    \* number of execute calls
  finalizeCnt,   \* number of finalizeExecute calls
  execThrew,     \* execute ended by an exception (history)
  workResult,    \* how work() ended: a job status, or "threw"
  handleErrorCnt,\* number of handleError calls
  finishCnt,     \* number of finishAsyncJob calls
  asyncStatus,   \* status of the job's AsyncJobManager entry
  asyncMoves,    \* number of times the entry left "pending"
  decOrder,      \* who decremented _refCount, in order (history)
  deletedBy,     \* who ran "delete this", in order (history)
  releaseCnt,    \* number of WorkMonitor::releaseHandler calls by ~HttpServerJob
  badAccess,     \* a field of the Job was accessed after the Job was deleted
  shutdownFirst, \* beginShutdown had returned when cleanup started (history)
  cancelSeen     \* the value of _handler that cancel() called through (history)

jobVars == <<ctorTask, task, handler, refCount, isInCleanup, detached, pcW, pcS,
             seenTask, taskAlive, taskHandler, calls, prepareCnt, executeCnt,
             finalizeCnt, execThrew, workResult, handleErrorCnt, finishCnt,
             asyncStatus, asyncMoves, decOrder, deletedBy, releaseCnt, badAccess,
             shutdownFirst, cancelSeen>>

(***************************************************************************)
(* RestSimpleHandler                                                       *)
(***************************************************************************)
VARIABLES
  query,         \* RestSimpleHandler::_query
  queryKilled,   \* RestSimpleHandler::_queryKilled
  qAlive,        \* the Query object of the running operation exists
  qKilled,       \* the killed flag of that Query object
  killedElsewhere, \* the Query was killed by somebody else than cancel()
  pcH,           \* position of the handler's thread
  thrown,        \* the error code of the exception thrown inside the try block
  qCode,         \* queryResult.code
  response,      \* what the handler answered
  cancels,       \* number of cancel() calls made so far
  cancelLog      \* what the cancel() calls did (history)

queryVars == <<query, queryKilled, qAlive, qKilled, killedElsewhere, pcH, thrown,
               qCode, response, cancels, cancelLog>>

(***************************************************************************)
(* SchedulerThread                                                         *)
(***************************************************************************)
VARIABLES
  stopping,      \* SchedulerThread::_stopping
  stopped,       \* SchedulerThread::_stopped
  open,          \* SchedulerThread::_open
  hasWork,       \* SchedulerThread::_hasWork
  queue,         \* SchedulerThread::_queue
  numberTasks,   \* SchedulerThread::_numberTasks
  pcL,           \* position of the scheduler thread in run()
  wake,          \* a wakeupLoop is pending for the event loop
  taskSt,        \* per task: its state on the loop
  delCnt,        \* per task: number of deleteTask calls
  called,        \* per task: the calls the other components have made for it
  regResult,     \* per task: what registerTask returned
  pcE,           \* per other thread: the call it is in the middle of
  ioLog,         \* who ran setupTask / cleanupTask (history)
  setupOk,       \* per task: what its setupTask returned (history)
  lastCall       \* the call that made the last step (history)

schedVars == <<stopping, stopped, open, hasWork, queue, numberTasks, pcL, wake,
               taskSt, delCnt, called, regResult, pcE, ioLog, setupOk, lastCall>>

(***************************************************************************)
(* WorkMonitor                                                             *)
(***************************************************************************)
VARIABLES
  descs,         \* the WorkDescriptions allocated so far, by number
  active,        \* per thread: Thread::workDescription()
  freeable,      \* FREEABLE_WORK_DESCRIPTION
  emptyQ,        \* EMPTY_WORK_DESCRIPTION
  scopes,        \* per thread: its live HandlerWorkStack objects, innermost last
  hState,        \* per handler: who holds it
  hDel,          \* per handler: number of times it was deleted
  delLog,        \* the deletions made: handler, thread, how its description was freed
  assertFailed,  \* a TRI_ASSERT of popHandler / destroyHandler has failed
  created        \* number of createWorkDescription calls made

monVars == <<descs, active, freeable, emptyQ, scopes, hState, hDel, delLog,
             assertFailed, created>>

(***************************************************************************)
(* DispatcherQueue                                                         *)
(***************************************************************************)
VARIABLES
  dqJobs,        \* the FIFO of queued Jobs
  dqRunning,     \* per worker thread of the queue: the Job it executes, or 0
  dqStatus       \* per Job: new, queued, running, done, or QUEUE_FULL

dispVars == <<dqJobs, dqRunning, dqStatus>>

(***************************************************************************)
(* AsyncJobManager                                                         *)
(***************************************************************************)
VARIABLES
  amJobs,        \* the registry: per job id its entry, or NoEntry
  amNextId,      \* the id the next submission gets
  amRet,         \* the last operation made and what it returned (history)
  amPolled,      \* per id: the payload the last poll returned, or "none"
  amFetched      \* the ids whose result a fetch has taken (history)

asyncMgrVars == <<amJobs, amNextId, amRet, amPolled, amFetched>>

(***************************************************************************)
(* BenchmarkCounter                                                        *)
(***************************************************************************)
VARIABLES
  initialValue,  \* the initialValue argument of the constructor (history)
  value,         \* BenchmarkCounter::_value
  maxValue,      \* BenchmarkCounter::_maxValue
  realValue,     \* per client thread: realValue of its call of next, or NoCall
  nextCalls,     \* number of next() calls made so far
  returned,      \* sum of the amounts the calls of next have returned (history)
  lastNext       \* the last call of next that returned (history)

counterVars == <<initialValue, value, maxValue, realValue, nextCalls, returned,
                 lastNext>>

(***************************************************************************)
(* RestSimpleHandler::lookupByKeys                                         *)
(***************************************************************************)
VARIABLES
  lkBody,        \* the parsed body of the PUT request (a Slice)
  lkDocs,        \* the keys of the documents of the collection
  lkCode,        \* the code the query ends with when it is executed
  lkResponse     \* the response of the handler, or NoResponse

lookupVars == <<lkBody, lkDocs, lkCode, lkResponse>>

(***************************************************************************)
(* RestQueryHandler::deleteQuery                                           *)
(***************************************************************************)
VARIABLES
  queryList,     \* QueryList: per query id "none", "running" or "killed"
  suffix,        \* the URL suffixes of the last DELETE request
  killRes,       \* what QueryList::kill returned for it, or "none"
  delResponse    \* the HTTP code the handler answered, or "none"

killVars == <<queryList, suffix, killRes, delResponse>>

(***************************************************************************)
(* Hash index on the attribute "value" of a collection                     *)
(***************************************************************************)
VARIABLES
  sparse,        \* the sparse option of ensureIndex
  unique,        \* the unique option of ensureIndex
  documents,     \* the collection: per key the value of the document, or NoDoc
  entries,       \* the index: pairs of an indexed value and a document key
  nextKey,       \* the key the next inserted document gets
  rejected,      \* an insert has failed with error 1210 (history)
  lastOp         \* the last insert or remove and its errorNum (history)

indexVars == <<sparse, unique, documents, entries, nextKey, rejected, lastOp>>

(***************************************************************************)
(* velocypack Collection::merge                                            *)
(***************************************************************************)
VARIABLES
  mgLeft,        \* the argument left
  mgRight,       \* the argument right
  mgMergeValues, \* the argument mergeValues
  mgResult,      \* the slice of the Builder that merge returned
  mgThrown       \* the exception merge ended with, or "none"

mergeVars == <<mgLeft, mgRight, mgMergeValues, mgResult, mgThrown>>

(***************************************************************************)
(* velocypack Builder::addInt and Slice::getInt                            *)
(***************************************************************************)
VARIABLES
  aiValue,       \* the argument v of addInt
  aiSlice,       \* the head byte and the bytes addInt wrote, or a None slice
  aiRead         \* what getInt returned for them, or the exception it threw

intVars == <<aiValue, aiSlice, aiRead>>

(***************************************************************************)
(* velocypack Buffer<T>                                                    *)
(***************************************************************************)
VARIABLES
  buffers,       \* the Buffer objects: _buffer (the inline _local or a heap block), _alloc, _pos
  asserted       \* a VELOCYPACK_ASSERT of reserve did not hold (history)

bufVars == <<buffers, asserted>>

\* the machines of the velocypack library
libVars == <<mergeVars, intVars, bufVars>>

\* the machines of the request handlers and of the client tools
restVars == <<asyncMgrVars, counterVars, lookupVars, killVars, indexVars>>

vars == <<jobVars, queryVars, schedVars, monVars, dispVars, restVars, libVars>>

TheTask == "T1"
TheHandler == "H"

\* _refCount(task == nullptr ? 1 : 2)
InitRefCount(t) == IF t = NULL THEN 1 ELSE 2

\* _isDetached(task == nullptr)
InitDetached(t) == t = NULL

\* bool HttpServerJob::isDetached () const { return _isDetached; }
isDetached_fromTask == task = NULL
isDetached == detached

\* if (--_refCount == 0): the test on the decremented value
DropsToZero_offByOne(rc) == rc - 1 <= 1
DropsToZero(rc) == rc - 1 = 0

\* ~HttpServerJob: number of releaseHandler calls it makes for handler pointer h
Destructor_noRelease(h) == 0
Destructor(h) == IF h # NULL THEN 1 ELSE 0

JobDeleted == Len(deletedBy) > 0

\* every access to a field of the Job made by a step
Touch == badAccess' = (badAccess \/ JobDeleted)

ShutdownReturned == pcS \in {"returned", "done"}

InitJob ==
  /\ ctorTask \in {NULL, TheTask}
  /\ task = ctorTask
  /\ handler = TheHandler
  /\ refCount = InitRefCount(ctorTask)
  /\ isInCleanup = FALSE
  /\ detached = InitDetached(ctorTask)
  /\ pcW = "queued"
  /\ pcS = "idle"
  /\ seenTask = NULL
  /\ taskAlive = (ctorTask # NULL)
  /\ taskHandler = NULL
  /\ calls = <<>>
  /\ prepareCnt = 0
  /\ executeCnt = 0
  /\ finalizeCnt = 0
  /\ execThrew = FALSE
  /\ workResult = "none"
  /\ handleErrorCnt = 0
  /\ finishCnt = 0
  /\ asyncStatus = IF ctorTask = NULL THEN "pending" ELSE "none"
  /\ asyncMoves = 0
  /\ decOrder = <<>>
  /\ deletedBy = <<>>
  /\ releaseCnt = 0
  /\ badAccess = FALSE
  /\ shutdownFirst = FALSE
  /\ cancelSeen = "none"

\* what no step of work(), cleanup() and beginShutdown() writes
ctorVars == <<ctorTask, detached, cancelSeen>>
workVars == <<prepareCnt, executeCnt, finalizeCnt, execThrew, workResult, handleErrorCnt>>
asyncVars == <<finishCnt, asyncStatus, asyncMoves>>
refVars == <<refCount, decOrder, deletedBy, releaseCnt>>
taskVars == <<taskAlive, taskHandler, calls>>

(***************************************************************************)
(* WorkMonitor: the descriptions of the work a thread is doing             *)
(***************************************************************************)

\* number of HandlerWorkStack objects the dispatcher thread has alive around
\* a call of work()
MaxDepth == 2
\* number of createWorkDescription calls in a run
MaxCreates == 4

\* the dispatcher thread that runs work() and cleanup() of the Job, the
\* scheduler thread that runs beginShutdown(), and the monitor thread
DispatcherThread == 0
CommThread == 1
MonitorThread == 2
WThreads == {DispatcherThread, CommThread}

\* the handler, besides that of the Job, the dispatcher thread works on
OtherHandler == "G"
Handlers == {TheHandler, OtherHandler}

\* pushThread, lines 209-222: the description of thread w, made when it starts
ThreadDesc(w) == w + 1

\* the thread that runs a method of the Job
ThreadOf(who) == IF who = "cleanup" THEN DispatcherThread ELSE CommThread

\* WorkDescription::WorkDescription, lines 138-140, and the fields
\* createWorkDescription resets, lines 170-172
NewDescription(type, prev, h) ==
  [type |-> type, destroy |-> TRUE, prev |-> prev, handler |-> h, via |-> "none"]

\* the part of the state the WorkMonitor functions work on
Mon ==
  [descs |-> descs, active |-> active, freeable |-> freeable, emptyQ |-> emptyQ,
   assertFailed |-> assertFailed, created |-> created]

SetMon(m) ==
  /\ descs' = m.descs
  /\ active' = m.active
  /\ freeable' = m.freeable
  /\ emptyQ' = m.emptyQ
  /\ assertFailed' = m.assertFailed
  /\ created' = m.created

\* the run has calls of createWorkDescription left
CanCreate(m) == m.created < MaxCreates

\* createWorkDescription, lines 166-179: the description it returns
CreatedDesc(m) == IF m.emptyQ # <<>> THEN Head(m.emptyQ) ELSE Len(m.descs) + 1

\* createWorkDescription, lines 166-179, by thread w, with _data.handler = h
createWorkDescription_stale(m, w, h) ==
  IF m.emptyQ # <<>>
    THEN [m EXCEPT !.descs[Head(m.emptyQ)].type = "HANDLER",
                   !.descs[Head(m.emptyQ)].handler = h,
                   !.descs[Head(m.emptyQ)].prev = m.active[w],
                   !.descs[Head(m.emptyQ)].via = "none",
                   !.emptyQ = Tail(m.emptyQ), !.created = @ + 1]
    ELSE [m EXCEPT !.descs = Append(m.descs, NewDescription("HANDLER", m.active[w], h)),
                   !.created = @ + 1]
createWorkDescription(m, w, h) ==
  LET rec == NewDescription("HANDLER", m.active[w], h) IN
    IF m.emptyQ # <<>>
      THEN [m EXCEPT !.descs[Head(m.emptyQ)] = rec, !.emptyQ = Tail(m.emptyQ),
                     !.created = @ + 1]
      ELSE [m EXCEPT !.descs = Append(m.descs, rec), !.created = @ + 1]

\* activateWorkDescription, lines 185-187
activateWorkDescription(m, w, d) == [m EXCEPT !.active[w] = d]

\* deactivateWorkDescription, lines 193-195: Thread::setPrevWorkDescription
\* makes the previous description the current one and returns the current
deactivateWorkDescription(m, w) == [m EXCEPT !.active[w] = m.descs[m.active[w]].prev]

\* freeWorkDescription, lines 201-203
freeWorkDescription(m, d) == [m EXCEPT !.freeable = Append(m.freeable, d)]

\* pushHandler, part_000 lines 98-103
pushHandler(m, w, h) ==
  activateWorkDescription(createWorkDescription(m, w, h), w, CreatedDesc(m))

\* the assertions of popHandler and destroyHandler, lines 112-113 and 127-128
HandlerAsserts(m, d, h) ==
  d # 0 /\ m.descs[d].type = "HANDLER" /\ m.descs[d].handler = h

\* popHandler, part_000 lines 109-118
popHandler_destroying(m, w, h) ==
  LET d == m.active[w]
      m1 == deactivateWorkDescription(m, w)
      m2 == [m1 EXCEPT !.descs[d].via = "pop",
                       !.assertFailed = @ \/ ~HandlerAsserts(m, d, h)]
  IN  freeWorkDescription(m2, d)
popHandler(m, w, h) ==
  LET d == m.active[w]
      m1 == deactivateWorkDescription(m, w)
      m2 == [m1 EXCEPT !.descs[d].destroy = FALSE, !.descs[d].via = "pop",
                       !.assertFailed = @ \/ ~HandlerAsserts(m, d, h)]
  IN  freeWorkDescription(m2, d)

\* destroyHandler, part_000 lines 124-131
destroyHandler(m, w, h) ==
  LET d == m.active[w]
      m1 == deactivateWorkDescription(m, w)
      m2 == [m1 EXCEPT !.descs[d].via = "destroy",
                       !.assertFailed = @ \/ ~HandlerAsserts(m, d, h)]
  IN  freeWorkDescription(m2, d)

\* releaseHandler, part_000 lines 137-142
releaseHandler(m, w, h) ==
  LET d == CreatedDesc(m)
      m1 == createWorkDescription(m, w, h)
  IN  freeWorkDescription([m1 EXCEPT !.descs[d].via = "release"], d)

\* a HandlerWorkStack object: its fields, the description its constructor
\* pushed and the one that was current before
Scope(m, w, h, destroy) ==
  [handler |-> h, destroy |-> destroy, desc |-> CreatedDesc(m), before |-> m.active[w]]

\* the state at the start of the process: every thread has pushed its own
\* description, no handler is being worked on
InitWork ==
  /\ descs = [d \in 1 .. Cardinality(WThreads) |-> NewDescription("THREAD", 0, NULL)]
  /\ active = [w \in WThreads |-> ThreadDesc(w)]
  /\ freeable = <<>>
  /\ emptyQ = <<>>
  /\ scopes = [w \in WThreads |-> <<>>]
  /\ hState = [h \in Handlers |-> "held"]
  /\ hDel = [h \in Handlers |-> 0]
  /\ delLog = {}
  /\ assertFailed = FALSE
  /\ created = 0

\* a step of the Job machine leaves the other machines alone
JobStep == UNCHANGED <<queryVars, schedVars, monVars, dispVars, restVars, libVars>>

\* a step of the Job that calls the WorkMonitor
JobMonStep == UNCHANGED <<queryVars, schedVars, dispVars, restVars, libVars>>

(* ------------------------------ work() ---------------------------------- *)

\* work(), line 123: HandlerWorkStack work(_handler, false)
WorkScopeEntered ==
  /\ SetMon(pushHandler(Mon, DispatcherThread, handler))
  /\ scopes' = [scopes EXCEPT ![DispatcherThread] =
                  Append(@, Scope(Mon, DispatcherThread, handler, FALSE))]

\* work() is left by a return or by an exception: ~HandlerWorkStack runs for
\* the object of line 123, which has _destroy false
WorkScopeLeft_kept(m) == SetMon(m)
WorkScopeLeft(m) ==
  SetMon(popHandler(m, DispatcherThread, TheHandler))

WorkScopeEnds ==
  /\ WorkScopeLeft(Mon)
  /\ scopes' = [scopes EXCEPT ![DispatcherThread] = SubSeq(@, 1, Len(@) - 1)]
  /\ UNCHANGED <<hState, hDel, delLog>>

\* work(), line 127: the task is already gone
TaskGone_anyNull == task = NULL
TaskGone == ~isDetached /\ task = NULL

\* work(), lines 119-129: the check whether the task is already gone
WorkBegin ==
  /\ pcW = "queued"
  /\ Touch
  /\ CanCreate(Mon)
  /\ IF TaskGone
       THEN /\ workResult' = "JOB_DONE"
            /\ pcW' = "worked"
            /\ WorkScopeLeft(pushHandler(Mon, DispatcherThread, handler))
            /\ UNCHANGED scopes
       ELSE /\ workResult' = workResult
            /\ pcW' = "prepare"
            /\ WorkScopeEntered
  /\ UNCHANGED <<ctorVars, task, handler, isInCleanup, pcS, seenTask, taskVars,
                 prepareCnt, executeCnt, finalizeCnt, execThrew, handleErrorCnt,
                 asyncVars, refVars, shutdownFirst>>
  /\ UNCHANGED <<hState, hDel, delLog>>
  /\ JobMonStep

\* work(), lines 131-132: _handler->prepareExecute()
WorkPrepare ==
  /\ pcW = "prepare"
  /\ Touch
  /\ prepareCnt' = prepareCnt + 1
  /\ pcW' = "execute"
  /\ UNCHANGED <<ctorVars, task, handler, isInCleanup, pcS, seenTask, taskVars,
                 executeCnt, finalizeCnt, execThrew, workResult, handleErrorCnt,
                 asyncVars, refVars, shutdownFirst>>
  /\ JobStep

\* work(), lines 136-138: status = _handler->execute(), which returns or throws
WorkExecute ==
  /\ pcW = "execute"
  /\ Touch
  /\ executeCnt' = executeCnt + 1
  /\ \E threw \in BOOLEAN :
       /\ execThrew' = threw
       /\ pcW' = IF threw THEN "catch" ELSE "finalize"
  /\ UNCHANGED <<ctorVars, task, handler, isInCleanup, pcS, seenTask, taskVars,
                 prepareCnt, finalizeCnt, workResult, handleErrorCnt,
                 asyncVars, refVars, shutdownFirst>>
  /\ JobStep

\* work(), lines 139-142: catch (...) { _handler->finalizeExecute(); throw; }
WorkCatch_swallow ==
  /\ pcW = "catch"
  /\ Touch
  /\ finalizeCnt' = finalizeCnt + 1
  /\ workResult' = "JOB_FAILED"
  /\ pcW' = "worked"
  /\ UNCHANGED <<ctorVars, task, handler, isInCleanup, pcS, seenTask, taskVars,
                 prepareCnt, executeCnt, execThrew, handleErrorCnt,
                 asyncVars, refVars, shutdownFirst>>
  /\ WorkScopeEnds
  /\ JobMonStep

WorkCatch_noFinalize ==
  /\ pcW = "catch"
  /\ Touch
  /\ workResult' = "threw"
  /\ pcW' = "threw"
  /\ UNCHANGED <<ctorVars, task, handler, isInCleanup, pcS, seenTask, taskVars,
                 prepareCnt, executeCnt, finalizeCnt, execThrew, handleErrorCnt,
                 asyncVars, refVars, shutdownFirst>>
  /\ WorkScopeEnds
  /\ JobMonStep

WorkCatch ==
  /\ pcW = "catch"
  /\ Touch
  /\ finalizeCnt' = finalizeCnt + 1
  /\ workResult' = "threw"
  /\ pcW' = "threw"
  /\ UNCHANGED <<ctorVars, task, handler, isInCleanup, pcS, seenTask, taskVars,
                 prepareCnt, executeCnt, execThrew, handleErrorCnt,
                 asyncVars, refVars, shutdownFirst>>
  /\ WorkScopeEnds
  /\ JobMonStep

\* work(), lines 144-149: finalizeExecute, return status.jobStatus()
WorkFinish ==
  /\ pcW = "finalize"
  /\ Touch
  /\ finalizeCnt' = finalizeCnt + 1
  /\ \E st \in {"JOB_DONE", "JOB_FAILED", "JOB_REQUEUE"} : workResult' = st
  /\ pcW' = "worked"
  /\ UNCHANGED <<ctorVars, task, handler, isInCleanup, pcS, seenTask, taskVars,
                 prepareCnt, executeCnt, execThrew, handleErrorCnt,
                 asyncVars, refVars, shutdownFirst>>
  /\ WorkScopeEnds
  /\ JobMonStep

\* handleError, lines 210-212: _handler->handleError(ex)
handleError ==
  /\ Touch
  /\ handleErrorCnt' = handleErrorCnt + 1

\* the worker loop around work(): an exception that leaves work() is caught
\* there and given to handleError, then cleanup is called
WorkerCatch ==
  /\ pcW = "threw"
  /\ handleError
  /\ pcW' = "worked"
  /\ UNCHANGED <<ctorVars, task, handler, isInCleanup, pcS, seenTask, taskVars,
                 prepareCnt, executeCnt, finalizeCnt, execThrew, workResult,
                 asyncVars, refVars, shutdownFirst>>
  /\ JobStep

(* ------------------------------ cleanup() ------------------------------- *)

\* AsyncJobManager::finishAsyncJob: the entry of the job, if still pending,
\* takes the result
finishAsyncJob ==
  /\ finishCnt' = finishCnt + 1
  /\ IF asyncStatus = "pending"
       THEN /\ \E st \in {"done", "error"} : asyncStatus' = st
            /\ asyncMoves' = asyncMoves + 1
       ELSE UNCHANGED <<asyncStatus, asyncMoves>>

\* the values a read of _task after line 171 can yield: the pointer is read
\* again at lines 172 and 174 while beginShutdown may write it, so the read
\* gives the value seen at line 171 (kept in a register) or the current one
TaskRead == {seenTask, task}

\* a call on the task made through pointer t
CallOnTask(op, t) ==
  calls' = Append(calls, [op |-> op, target |-> t, alive |-> taskAlive,
                          afterShutdown |-> ShutdownReturned])

\* if (--_refCount == 0) { delete this; }, with ~HttpServerJob
DropRef(who) ==
  /\ Touch
  /\ refCount' = refCount - 1
  /\ decOrder' = Append(decOrder, who)
  /\ IF DropsToZero(refCount)
       THEN /\ deletedBy' = Append(deletedBy, who)
            /\ releaseCnt' = releaseCnt + Destructor(handler)
            /\ IF Destructor(handler) > 0
                 THEN /\ SetMon(releaseHandler(Mon, ThreadOf(who), handler))
                      /\ hState' = [hState EXCEPT ![handler] = "freed"]
                 ELSE UNCHANGED <<descs, active, freeable, emptyQ, assertFailed,
                                  created, hState>>
       ELSE UNCHANGED <<deletedBy, releaseCnt, descs, active, freeable, emptyQ,
                        assertFailed, created, hState>>
  /\ UNCHANGED <<scopes, hDel, delLog>>

\* cleanup(), lines 165-169
CleanupEnter_noPublish ==
  /\ pcW = "worked"
  /\ Touch
  /\ shutdownFirst' = ShutdownReturned
  /\ IF isDetached
       THEN /\ pcW' = "drop"
            /\ UNCHANGED <<isInCleanup, asyncVars>>
       ELSE /\ isInCleanup' = TRUE
            /\ pcW' = "check"
            /\ UNCHANGED asyncVars
  /\ UNCHANGED <<ctorVars, task, handler, pcS, seenTask, taskVars, workVars, refVars>>
  /\ JobStep

CleanupEnter ==
  /\ pcW = "worked"
  /\ Touch
  /\ shutdownFirst' = ShutdownReturned
  /\ IF isDetached
       THEN /\ finishAsyncJob
            /\ pcW' = "drop"
            /\ UNCHANGED isInCleanup
       ELSE /\ isInCleanup' = TRUE
            /\ pcW' = "check"
            /\ UNCHANGED asyncVars
  /\ UNCHANGED <<ctorVars, task, handler, pcS, seenTask, taskVars, workVars, refVars>>
  /\ JobStep

\* cleanup(), line 171: if (_task != nullptr)
CleanupCheck ==
  /\ pcW = "check"
  /\ Touch
  /\ seenTask' = task
  /\ pcW' = IF task # NULL THEN "setHandler" ELSE "clear"
  /\ UNCHANGED <<ctorVars, task, handler, isInCleanup, pcS, taskVars, workVars,
                 asyncVars, refVars, shutdownFirst>>
  /\ JobStep

\* cleanup(), line 172: _task->setHandler(_handler). A null pointer ends the
\* process; a pointer to a destroyed task writes to freed memory, which ends
\* the process or goes unnoticed
CleanupSetHandler ==
  /\ pcW = "setHandler"
  /\ Touch
  /\ \E t \in TaskRead :
       IF t = NULL
         THEN /\ pcW' = "crashed"
              /\ UNCHANGED taskVars
         ELSE /\ CallOnTask("setHandler", t)
              /\ taskHandler' = IF taskAlive THEN handler ELSE taskHandler
              /\ UNCHANGED taskAlive
              /\ \/ pcW' = "nullHandler"
                 \/ ~taskAlive /\ pcW' = "crashed"
  /\ UNCHANGED <<ctorVars, task, handler, isInCleanup, pcS, seenTask, workVars,
                 asyncVars, refVars, shutdownFirst>>
  /\ JobStep

\* cleanup(), line 173: _handler = nullptr
CleanupNullHandler_kept ==
  /\ pcW = "nullHandler"
  /\ Touch
  /\ pcW' = "signal"
  /\ UNCHANGED <<ctorVars, task, handler, isInCleanup, pcS, seenTask, taskVars,
                 workVars, asyncVars, refVars, shutdownFirst>>
  /\ JobStep

CleanupNullHandler ==
  /\ pcW = "nullHandler"
  /\ Touch
  /\ handler' = NULL
  /\ pcW' = "signal"
  /\ UNCHANGED <<ctorVars, task, isInCleanup, pcS, seenTask, taskVars,
                 workVars, asyncVars, refVars, shutdownFirst>>
  /\ JobStep

\* cleanup(), line 174: _task->signal()
CleanupSignal ==
  /\ pcW = "signal"
  /\ Touch
  /\ \E t \in TaskRead :
       IF t = NULL
         THEN /\ pcW' = "crashed"
              /\ UNCHANGED taskVars
         ELSE /\ CallOnTask("signal", t)
              /\ UNCHANGED <<taskAlive, taskHandler>>
              /\ \/ pcW' = "clear"
                 \/ ~taskAlive /\ pcW' = "crashed"
  /\ UNCHANGED <<ctorVars, task, handler, isInCleanup, pcS, seenTask, workVars,
                 asyncVars, refVars, shutdownFirst>>
  /\ JobStep

\* cleanup(), line 177: _isInCleanup.store(false)
CleanupClear_kept ==
  /\ pcW = "clear"
  /\ Touch
  /\ pcW' = "drop"
  /\ UNCHANGED <<ctorVars, task, handler, isInCleanup, pcS, seenTask, taskVars,
                 workVars, asyncVars, refVars, shutdownFirst>>
  /\ JobStep

CleanupClear ==
  /\ pcW = "clear"
  /\ Touch
  /\ isInCleanup' = FALSE
  /\ pcW' = "drop"
  /\ UNCHANGED <<ctorVars, task, handler, pcS, seenTask, taskVars, workVars,
                 asyncVars, refVars, shutdownFirst>>
  /\ JobStep

\* cleanup(), lines 180-184: removeJob, then the reference is dropped
CleanupDrop ==
  /\ pcW = "drop"
  /\ DropRef("cleanup")
  /\ pcW' = "done"
  /\ UNCHANGED <<ctorVars, task, handler, isInCleanup, pcS, seenTask, taskVars,
                 workVars, asyncVars, shutdownFirst>>
  /\ JobMonStep

(* ------------------------------ cancel() -------------------------------- *)

\* cancel(), lines 156-158: return _handler->cancel(), called by any thread
\* while the Job exists
Cancel ==
  /\ ~JobDeleted
  /\ pcW # "crashed"
  /\ cancelSeen = "none"
  /\ cancelSeen' = handler
  /\ UNCHANGED <<ctorTask, detached, task, handler, isInCleanup, pcW, pcS, seenTask,
                 taskVars, workVars, asyncVars, refVars, badAccess, shutdownFirst>>
  /\ JobStep

(* --------------------------- beginShutdown() ---------------------------- *)

\* the process is still running (no step of cleanup has ended it)
Running == pcW # "crashed"

\* beginShutdown(), lines 194-196: while (_isInCleanup.load()) usleep(1000)
ShutdownSpin ==
  /\ Running
  /\ ~detached
  /\ pcS \in {"idle", "spin"}
  /\ Touch
  /\ pcS' = IF isInCleanup THEN "spin" ELSE "null"
  /\ UNCHANGED <<ctorVars, task, handler, isInCleanup, pcW, seenTask, taskVars,
                 workVars, asyncVars, refVars, shutdownFirst>>
  /\ JobStep

\* beginShutdown(), line 198: _task = nullptr
ShutdownNull ==
  /\ Running
  /\ pcS = "null"
  /\ Touch
  /\ task' = NULL
  /\ pcS' = "dec"
  /\ UNCHANGED <<ctorVars, handler, isInCleanup, pcW, seenTask, taskVars,
                 workVars, asyncVars, refVars, shutdownFirst>>
  /\ JobStep

\* beginShutdown(), lines 201-203
ShutdownDrop ==
  /\ Running
  /\ pcS = "dec"
  /\ DropRef("beginShutdown")
  /\ pcS' = "returned"
  /\ UNCHANGED <<ctorVars, task, handler, isInCleanup, pcW, seenTask, taskVars,
                 workVars, asyncVars, shutdownFirst>>
  /\ JobMonStep

\* the CommTask is destroyed once beginShutdown has returned
TaskDestroyed ==
  /\ Running
  /\ pcS = "returned"
  /\ taskAlive' = FALSE
  /\ taskHandler' = NULL
  /\ pcS' = "done"
  /\ UNCHANGED <<ctorVars, task, handler, isInCleanup, pcW, seenTask, calls,
                 workVars, asyncVars, refVars, badAccess, shutdownFirst>>
  /\ JobStep

(***************************************************************************)
(* RestSimpleHandler::removeByKeys and cancel                              *)
(***************************************************************************)

\* number of cancel() calls other threads make on one handler
MaxCancels == 3

TheQuery == "Q"

\* a step of the handler machine leaves the other machines alone
QueryStep == UNCHANGED <<jobVars, schedVars, monVars, dispVars, restVars, libVars>>

InitQuery ==
  /\ query = NULL
  /\ queryKilled = FALSE
  /\ qAlive = FALSE
  /\ qKilled = FALSE
  /\ killedElsewhere = FALSE
  /\ pcH = "start"
  /\ thrown = "none"
  /\ qCode = "none"
  /\ response = "none"
  /\ cancels = 0
  /\ cancelLog = {}

\* removeByKeys, lines 257-317: the body is checked, then the Query object is
\* constructed in the try block
RemoveByKeysBegin ==
  /\ pcH = "start"
  /\ \E valid \in BOOLEAN :
       IF valid
         THEN /\ qAlive' = TRUE
              /\ pcH' = "constructed"
              /\ UNCHANGED response
         ELSE /\ response' = "BAD"
              /\ pcH' = "done"
              /\ UNCHANGED qAlive
  /\ UNCHANGED <<query, queryKilled, qKilled, killedElsewhere, thrown, qCode,
                 cancels, cancelLog>>
  /\ QueryStep

\* registerQuery, lines 123-128 (called at line 319)
registerQuery ==
  /\ pcH = "constructed"
  /\ query' = TheQuery
  /\ pcH' = "registered"
  /\ UNCHANGED <<queryKilled, qAlive, qKilled, killedElsewhere, thrown, qCode,
                 response, cancels, cancelLog>>
  /\ QueryStep

\* the Query is killed through the query list, not through this handler
KillElsewhere ==
  /\ pcH = "registered"
  /\ qAlive
  /\ ~killedElsewhere
  /\ qKilled' = TRUE
  /\ killedElsewhere' = TRUE
  /\ UNCHANGED <<query, queryKilled, qAlive, pcH, thrown, qCode, response,
                 cancels, cancelLog>>
  /\ QueryStep

\* line 320: query.execute(_queryRegistry) returns a result, or ends by an
\* exception: the Query, a local of the try block, is then destroyed while the
\* stack is unwound, before a catch clause runs
ExecuteQuery ==
  /\ pcH = "registered"
  /\ \E out \in {"NO_ERROR", "QUERY_KILLED", "REQUEST_CANCELED", "OTHER_ERROR", "exception"} :
       /\ out = "QUERY_KILLED" => qKilled
       /\ IF out = "exception"
            THEN /\ qAlive' = FALSE
                 /\ thrown' = "INTERNAL"
                 /\ pcH' = "catch"
                 /\ UNCHANGED qCode
            ELSE /\ qCode' = out
                 /\ pcH' = "executed"
                 /\ UNCHANGED <<qAlive, thrown>>
  /\ UNCHANGED <<query, queryKilled, qKilled, killedElsewhere, response,
                 cancels, cancelLog>>
  /\ QueryStep

\* unregisterQuery, lines 134-138 (called at line 321)
unregisterQuery ==
  /\ pcH = "executed"
  /\ query' = NULL
  /\ pcH' = "result"
  /\ UNCHANGED <<queryKilled, qAlive, qKilled, killedElsewhere, thrown, qCode,
                 response, cancels, cancelLog>>
  /\ QueryStep

\* wasCanceled, lines 160-163
wasCanceled_always == TRUE
wasCanceled == queryKilled

\* lines 323-364: an error code is thrown, a success is answered; the Query is
\* destroyed when the try block is left either way
QueryResult ==
  /\ pcH = "result"
  /\ qAlive' = FALSE
  /\ IF qCode # "NO_ERROR"
       THEN /\ thrown' = IF \/ qCode = "REQUEST_CANCELED"
                             \/ (qCode = "QUERY_KILLED" /\ wasCanceled)
                          THEN "REQUEST_CANCELED"
                          ELSE qCode
            /\ pcH' = "catch"
            /\ UNCHANGED response
       ELSE /\ response' = "OK"
            /\ pcH' = "done"
            /\ UNCHANGED thrown
  /\ UNCHANGED <<query, queryKilled, qKilled, killedElsewhere, qCode, cancels, cancelLog>>
  /\ QueryStep

\* lines 365-372: the catch clauses: unregisterQuery, generateError
CatchClause ==
  /\ pcH = "catch"
  /\ query' = NULL
  /\ response' = thrown
  /\ pcH' = "done"
  /\ UNCHANGED <<queryKilled, qAlive, qKilled, killedElsewhere, thrown, qCode,
                 cancels, cancelLog>>
  /\ QueryStep

\* cancel / cancelQuery, lines 111-113 and 144-154, called by another thread.
\* killed(true) on a destroyed Query writes to an object that is gone
cancelQuery ==
  /\ cancels < MaxCancels
  /\ cancels' = cancels + 1
  /\ IF query # NULL
       THEN /\ qKilled' = IF qAlive THEN TRUE ELSE qKilled
            /\ queryKilled' = TRUE
            /\ cancelLog' = cancelLog \cup
                 {[ret |-> TRUE, target |-> IF qAlive THEN "alive" ELSE "destroyed"]}
       ELSE /\ cancelLog' = cancelLog \cup {[ret |-> FALSE, target |-> "none"]}
            /\ UNCHANGED <<qKilled, queryKilled>>
  /\ UNCHANGED <<query, qAlive, killedElsewhere, pcH, thrown, qCode, response>>
  /\ QueryStep

(***************************************************************************)
(* SchedulerThread                                                         *)
(***************************************************************************)

\* number of tasks the other components hand to the thread
MaxTasks == 1
\* number of threads, other than the scheduler thread, that call it
MaxOthers == 1

Tasks == 1 .. MaxTasks
LoopThread == 0
Others == 1 .. MaxOthers
Threads == {LoopThread} \cup Others

Idle == [work |-> "INVALID", task |-> 0]

\* a step of the scheduler machine leaves the other machines alone
SchedStep == UNCHANGED <<jobVars, queryVars, monVars, dispVars, restVars, libVars>>

\* SchedulerThread::SchedulerThread, lines 62-74
InitSched ==
  /\ stopping = FALSE
  /\ stopped = FALSE
  /\ open = FALSE
  /\ hasWork = FALSE
  /\ queue = <<>>
  /\ numberTasks = 0
  /\ pcL = "spin"
  /\ wake = FALSE
  /\ taskSt = [t \in Tasks |-> "new"]
  /\ delCnt = [t \in Tasks |-> 0]
  /\ called = [t \in Tasks |-> {}]
  /\ regResult = [t \in Tasks |-> "none"]
  /\ pcE = [e \in Others |-> Idle]
  /\ ioLog = {}
  /\ setupOk = [t \in Tasks |-> "none"]
  /\ lastCall = [thread |-> LoopThread, op |-> "none", task |-> 0, phase |-> 0]

\* threadId() == currentThreadId()
SameThread_always(c) == TRUE
SameThread(c) == c = LoopThread

\* setupTask(task, scheduler, _loop) run by thread c; on failure the caller
\* runs cleanupTask and deleteTask (lines 132-141 and 288-296)
DoSetup_leaked(t, ok, c) ==
  /\ taskSt' = [taskSt EXCEPT ![t] = IF @ = "deleted" THEN @ ELSE "setup"]
  /\ numberTasks' = numberTasks + 1
  /\ ioLog' = ioLog \cup {[op |-> "setupTask", thread |-> c]}
  /\ setupOk' = [setupOk EXCEPT ![t] = IF ok THEN "true" ELSE "false"]
  /\ UNCHANGED delCnt
DoSetup(t, ok, c) ==
  /\ IF ok
       THEN /\ taskSt' = [taskSt EXCEPT ![t] = IF @ = "deleted" THEN @ ELSE "setup"]
            /\ numberTasks' = numberTasks + 1
            /\ ioLog' = ioLog \cup {[op |-> "setupTask", thread |-> c]}
            /\ setupOk' = [setupOk EXCEPT ![t] = "true"]
            /\ UNCHANGED delCnt
       ELSE /\ taskSt' = [taskSt EXCEPT ![t] = "deleted"]
            /\ delCnt' = [delCnt EXCEPT ![t] = @ + 1]
            /\ ioLog' = ioLog \cup {[op |-> "setupTask", thread |-> c],
                                    [op |-> "cleanupTask", thread |-> c]}
            /\ setupOk' = [setupOk EXCEPT ![t] = "false"]
            /\ UNCHANGED numberTasks

\* cleanupTask(task); --_numberTasks (lines 173-174 and 282-283)
DoCleanup(t, c) ==
  /\ taskSt' = [taskSt EXCEPT ![t] = IF @ = "deleted" THEN @ ELSE "cleaned"]
  /\ numberTasks' = numberTasks - 1
  /\ ioLog' = ioLog \cup {[op |-> "cleanupTask", thread |-> c]}
  /\ UNCHANGED <<delCnt, setupOk>>

\* cleanupTask(task); deleteTask(task); --_numberTasks (lines 204-206, 302-304)
DoDestroy(t, c) ==
  /\ taskSt' = [taskSt EXCEPT ![t] = "deleted"]
  /\ delCnt' = [delCnt EXCEPT ![t] = @ + 1]
  /\ numberTasks' = numberTasks - 1
  /\ ioLog' = ioLog \cup {[op |-> "cleanupTask", thread |-> c]}
  /\ UNCHANGED setupOk

\* deleteTask(task) alone (lines 199 and 344)
DoDelete(t) ==
  /\ taskSt' = [taskSt EXCEPT ![t] = "deleted"]
  /\ delCnt' = [delCnt EXCEPT ![t] = @ + 1]

\* some thread has made call op for task t
HasCalled(t, op) == op \in called[t]

\* thread c can start a call for task t: the scheduler thread calls from a
\* callback inside its event loop, another thread when it is in no call; the
\* callers make one call at a time for a task
CanCall(c, t) ==
  /\ IF c = LoopThread THEN pcL = "eventLoop" ELSE pcE[c] = Idle
  /\ \A e \in Others : pcE[e].task # t

\* the queued branch of a call, up to the lock: Work w(op, scheduler, task)
Prepare(c, op, t) ==
  /\ pcE' = [pcE EXCEPT ![c] = [work |-> op, task |-> t]]

\* _scheduler->wakeupLoop(_loop), lines 112, 155, 187, 219
Wakeup_lost == UNCHANGED wake
Wakeup == wake' = TRUE

\* open(), lines 99-102
Open ==
  /\ ~open
  /\ open' = TRUE
  /\ lastCall' = [thread |-> LoopThread, op |-> "open", task |-> 0, phase |-> 0]
  /\ UNCHANGED <<stopping, stopped, hasWork, queue, numberTasks, pcL, wake, taskSt,
                 delCnt, called, regResult, pcE, ioLog, setupOk>>
  /\ SchedStep

\* beginShutdown(), lines 108-113
BeginShutdown ==
  /\ ~stopping
  /\ stopping' = TRUE
  /\ Wakeup
  /\ lastCall' = [thread |-> LoopThread, op |-> "beginShutdown", task |-> 0, phase |-> 0]
  /\ UNCHANGED <<stopped, open, hasWork, queue, numberTasks, pcL, taskSt,
                 delCnt, called, regResult, pcE, ioLog, setupOk>>
  /\ SchedStep

\* registerTask, lines 119-146, by thread c
RegisterTask(c, t) ==
  /\ CanCall(c, t)
  /\ ~HasCalled(t, "register")
  /\ called' = [called EXCEPT ![t] = @ \cup {"register"}]
  /\ lastCall' = [thread |-> c, op |-> "registerTask", task |-> t, phase |-> 1]
  /\ IF stopped
       THEN /\ regResult' = [regResult EXCEPT ![t] = "false"]
            /\ UNCHANGED <<taskSt, delCnt, numberTasks, ioLog, setupOk, pcE>>
       ELSE IF SameThread(c)
         THEN /\ \E ok \in BOOLEAN :
                   /\ DoSetup(t, ok, c)
                   /\ regResult' = [regResult EXCEPT ![t] = IF ok THEN "true" ELSE "false"]
              /\ UNCHANGED pcE
         ELSE /\ Prepare(c, "SETUP", t)
              /\ UNCHANGED <<taskSt, delCnt, numberTasks, ioLog, setupOk, regResult>>
  /\ UNCHANGED <<stopping, stopped, open, hasWork, queue, pcL, wake>>
  /\ SchedStep

\* unregisterTask, lines 164-179, by thread c
UnregisterTask(c, t) ==
  /\ CanCall(c, t)
  /\ regResult[t] = "true"
  /\ ~HasCalled(t, "unregister")
  /\ ~HasCalled(t, "destroy")
  /\ called' = [called EXCEPT ![t] = @ \cup {"unregister"}]
  /\ lastCall' = [thread |-> c, op |-> "unregisterTask", task |-> t, phase |-> 1]
  /\ IF stopped
       THEN UNCHANGED <<taskSt, delCnt, numberTasks, ioLog, setupOk, pcE>>
       ELSE IF SameThread(c)
         THEN /\ DoCleanup(t, c)
              /\ UNCHANGED pcE
         ELSE /\ Prepare(c, "CLEANUP", t)
              /\ UNCHANGED <<taskSt, delCnt, numberTasks, ioLog, setupOk>>
  /\ UNCHANGED <<stopping, stopped, open, hasWork, queue, pcL, wake, regResult>>
  /\ SchedStep

\* destroyTask, lines 195-212, by thread c
DestroyTask(c, t) ==
  /\ CanCall(c, t)
  /\ regResult[t] = "true"
  /\ ~HasCalled(t, "destroy")
  /\ called' = [called EXCEPT ![t] = @ \cup {"destroy"}]
  /\ lastCall' = [thread |-> c, op |-> "destroyTask", task |-> t, phase |-> 1]
  /\ IF stopped
       THEN /\ DoDelete(t)
            /\ UNCHANGED <<numberTasks, ioLog, setupOk, pcE>>
       ELSE IF SameThread(c)
         THEN /\ DoDestroy(t, c)
              /\ UNCHANGED pcE
         ELSE /\ Prepare(c, "DESTROY", t)
              /\ UNCHANGED <<taskSt, delCnt, numberTasks, ioLog, setupOk>>
  /\ UNCHANGED <<stopping, stopped, open, hasWork, queue, pcL, wake, regResult>>
  /\ SchedStep

\* the rest of a queued call, under _queueLock: push_back, _hasWork = true,
\* wakeupLoop (lines 150-157, 182-187, 214-219)
Enqueue(c) ==
  /\ c \in Others
  /\ pcE[c] # Idle
  /\ queue' = Append(queue, pcE[c])
  /\ hasWork' = TRUE
  /\ Wakeup
  /\ regResult' = IF pcE[c].work = "SETUP"
                    THEN [regResult EXCEPT ![pcE[c].task] = "true"]
                    ELSE regResult
  /\ pcE' = [pcE EXCEPT ![c] = Idle]
  /\ lastCall' = [thread |-> c, op |-> pcE[c].work, task |-> pcE[c].task, phase |-> 2]
  /\ UNCHANGED <<stopping, stopped, open, numberTasks, pcL, taskSt, delCnt, called,
                 ioLog, setupOk>>
  /\ SchedStep

(* -------------------------------- run() --------------------------------- *)

\* w = _queue.front(), lines 275 and 331
Front_newest(q) == q[Len(q)]
Front(q) == Head(q)

RunStep(name) ==
  lastCall' = [thread |-> LoopThread, op |-> name, task |-> 0, phase |-> 0]

\* the condition that ends the spin at line 242
SpinExit_ungated == TRUE
SpinExit_openOnly == open
SpinExit == stopping \/ open

\* run(), lines 242-244: while (! _stopping && ! _open) usleep(1000)
RunSpin ==
  /\ pcL = "spin"
  /\ SpinExit
  /\ pcL' = "test"
  /\ RunStep("spin")
  /\ UNCHANGED <<stopping, stopped, open, hasWork, queue, numberTasks, wake, taskSt,
                 delCnt, called, regResult, pcE, ioLog, setupOk>>
  /\ SchedStep

\* run(), line 246: while (! _stopping.load())
RunTest ==
  /\ pcL = "test"
  /\ pcL' = IF stopping THEN "stop" ELSE "eventLoop"
  /\ RunStep("test")
  /\ UNCHANGED <<stopping, stopped, open, hasWork, queue, numberTasks, wake, taskSt,
                 delCnt, called, regResult, pcE, ioLog, setupOk>>
  /\ SchedStep

\* run(), line 248: _scheduler->eventLoop(_loop) returns after a wakeup
EventLoopReturns ==
  /\ pcL = "eventLoop"
  /\ wake
  /\ wake' = FALSE
  /\ pcL' = "drain"
  /\ RunStep("eventLoop")
  /\ UNCHANGED <<stopping, stopped, open, hasWork, queue, numberTasks, taskSt,
                 delCnt, called, regResult, pcE, ioLog, setupOk>>
  /\ SchedStep

\* the build has pthreads (line 251)
TRI_HAVE_POSIX_THREADS == TRUE

\* where the catch clause at lines 250-259 leaves the thread: out of run()
\* by the throw at line 254, or on to the drain loop
AfterCatch_swallowed == "drain"
AfterCatch == IF TRI_HAVE_POSIX_THREADS /\ stopping THEN "threw" ELSE "drain"

\* run(), lines 250-259: the event loop raises an exception
EventLoopThrows ==
  /\ pcL = "eventLoop"
  /\ pcL' = AfterCatch
  /\ RunStep("catch")
  /\ UNCHANGED <<stopping, stopped, open, hasWork, queue, numberTasks, wake, taskSt,
                 delCnt, called, regResult, pcE, ioLog, setupOk>>
  /\ SchedStep

\* run(), lines 265-313: one turn of the loop that works the queue off
Drain ==
  /\ pcL = "drain"
  /\ RunStep("drain")
  /\ IF ~hasWork \/ queue = <<>>
       THEN /\ pcL' = "test"
            /\ UNCHANGED <<queue, numberTasks, taskSt, delCnt, ioLog, setupOk>>
       ELSE /\ queue' = Tail(queue)
            /\ pcL' = pcL
            /\ LET w == Front(queue) IN
                 CASE w.work = "CLEANUP" -> DoCleanup(w.task, LoopThread)
                   [] w.work = "SETUP" -> \E ok \in BOOLEAN : DoSetup(w.task, ok, LoopThread)
                   [] w.work = "DESTROY" -> DoDestroy(w.task, LoopThread)
                   [] OTHER -> UNCHANGED <<numberTasks, taskSt, delCnt, ioLog, setupOk>>
  /\ UNCHANGED <<stopping, stopped, open, hasWork, wake, called, regResult, pcE>>
  /\ SchedStep

\* run(), line 318: _stopped = true
SetStopped ==
  /\ pcL = "stop"
  /\ stopped' = TRUE
  /\ pcL' = "finalDrain"
  /\ RunStep("stop")
  /\ UNCHANGED <<stopping, open, hasWork, queue, numberTasks, wake, taskSt,
                 delCnt, called, regResult, pcE, ioLog, setupOk>>
  /\ SchedStep

\* run(), lines 321-351: pop all elements from the queue and delete them
FinalDrain ==
  /\ pcL = "finalDrain"
  /\ RunStep("finalDrain")
  /\ IF queue = <<>>
       THEN /\ pcL' = "ended"
            /\ UNCHANGED <<queue, taskSt, delCnt>>
       ELSE /\ queue' = Tail(queue)
            /\ pcL' = pcL
            /\ LET w == Front(queue) IN
                 IF w.work = "DESTROY"
                   THEN DoDelete(w.task)
                   ELSE UNCHANGED <<taskSt, delCnt>>
  /\ UNCHANGED <<stopping, stopped, open, hasWork, numberTasks, wake, called,
                 regResult, pcE, ioLog, setupOk>>
  /\ SchedStep

(***************************************************************************)
(* HandlerWorkStack around work(), and WorkMonitor::run                    *)
(***************************************************************************)

\* a step of these leaves the other machines alone
WorkStep == UNCHANGED <<jobVars, queryVars, schedVars, dispVars, restVars, libVars>>

Top(q) == q[Len(q)]

\* thread w can take handler h into a HandlerWorkStack: with destroy set the
\* object takes the handler over from its holder (the unique pointer is
\* released at line 63), without it the handler stays with its holder, who
\* is the caller or an enclosing HandlerWorkStack of the same thread
CanTake(w, h, destroy) ==
  IF destroy
    THEN hState[h] = "held"
    ELSE \/ hState[h] = "held"
         \/ \E i \in 1 .. Len(scopes[w]) : scopes[w][i].handler = h /\ scopes[w][i].destroy

\* HandlerWorkStack::HandlerWorkStack, part_000 lines 50-72, in the code
\* of thread w that encloses the call of work()
HandlerWorkStack(w, h, destroy) ==
  /\ pcW = "queued"
  /\ Len(scopes[w]) < MaxDepth
  /\ CanCreate(Mon)
  /\ CanTake(w, h, destroy)
  /\ SetMon(pushHandler(Mon, w, h))
  /\ scopes' = [scopes EXCEPT ![w] = Append(@, Scope(Mon, w, h, destroy))]
  /\ hState' = IF destroy THEN [hState EXCEPT ![h] = "scoped"] ELSE hState
  /\ UNCHANGED <<hDel, delLog>>
  /\ WorkStep

\* HandlerWorkStack::~HandlerWorkStack, part_000 lines 78-84: the objects of
\* a thread are destroyed innermost first
HandlerWorkStackDtor(w) ==
  /\ pcW \in {"queued", "worked", "threw", "done"}
  /\ scopes[w] # <<>>
  /\ LET sc == Top(scopes[w]) IN
       IF sc.destroy
         THEN /\ SetMon(destroyHandler(Mon, w, sc.handler))
              /\ hState' = [hState EXCEPT ![sc.handler] = "freed"]
         ELSE /\ SetMon(popHandler(Mon, w, sc.handler))
              /\ UNCHANGED hState
  /\ scopes' = [scopes EXCEPT ![w] = SubSeq(@, 1, Len(@) - 1)]
  /\ UNCHANGED <<hDel, delLog>>
  /\ WorkStep

\* WorkMonitor::DELETE_HANDLER, part_000 lines 148-152, run by thread w
DELETE_HANDLER(w, d) ==
  /\ hDel' = [hDel EXCEPT ![descs[d].handler] = @ + 1]
  /\ delLog' = delLog \cup {[handler |-> descs[d].handler, thread |-> w,
                              via |-> descs[d].via]}

\* deleteWorkDescription, lines 89-102, run by thread w
deleteWorkDescription(w, d) ==
  /\ IF descs[d].destroy /\ descs[d].type = "HANDLER"
       THEN DELETE_HANDLER(w, d)
       ELSE UNCHANGED <<hDel, delLog>>
  /\ emptyQ' = Append(emptyQ, d)

\* WorkMonitor::run, lines 281-284: one turn of the loop that empties the
\* queue of freeable descriptions
MonitorDrain ==
  /\ freeable # <<>>
  /\ freeable' = Tail(freeable)
  /\ deleteWorkDescription(MonitorThread, Head(freeable))
  /\ UNCHANGED <<descs, active, scopes, hState, assertFailed, created>>
  /\ WorkStep

(***************************************************************************)
(* DispatcherQueue: submission and the worker loop                         *)
(***************************************************************************)

\* capacity of the queue (N)
QueueSize == 1
\* number of worker threads of the queue (M)
QueueThreads == 1
\* number of Jobs submitted in a run
MaxJobs == 4

DJobs == 1 .. MaxJobs
DWorkers == 1 .. QueueThreads

\* a step of the queue leaves the other machines alone
DispStep == UNCHANGED <<jobVars, queryVars, schedVars, monVars, restVars, libVars>>

InitDisp ==
  /\ dqJobs = <<>>
  /\ dqRunning = [t \in DWorkers |-> 0]
  /\ dqStatus = [j \in DJobs |-> "new"]

\* the capacity test of a submission
QueueFull_never == FALSE
QueueFull == Len(dqJobs) >= QueueSize

\* submission of Job j: QUEUE_FULL if the capacity is exceeded, otherwise
\* append and signal one worker
Submit(j) ==
  /\ dqStatus[j] = "new"
  /\ IF QueueFull
       THEN /\ dqStatus' = [dqStatus EXCEPT ![j] = "QUEUE_FULL"]
            /\ UNCHANGED dqJobs
       ELSE /\ dqStatus' = [dqStatus EXCEPT ![j] = "queued"]
            /\ dqJobs' = Append(dqJobs, j)
  /\ UNCHANGED dqRunning
  /\ DispStep

\* worker loop, step 1: an idle worker dequeues the oldest Job
Dequeue(t) ==
  /\ dqRunning[t] = 0
  /\ dqJobs # <<>>
  /\ dqRunning' = [dqRunning EXCEPT ![t] = Head(dqJobs)]
  /\ dqJobs' = Tail(dqJobs)
  /\ dqStatus' = [dqStatus EXCEPT ![Head(dqJobs)] = "running"]
  /\ DispStep

\* worker loop, steps 2-5: work() and cleanup(queue) have run, the worker
\* loops
Complete(t) ==
  /\ dqRunning[t] # 0
  /\ dqStatus' = [dqStatus EXCEPT ![dqRunning[t]] = "done"]
  /\ dqRunning' = [dqRunning EXCEPT ![t] = 0]
  /\ UNCHANGED dqJobs
  /\ DispStep

(***************************************************************************)
(* AsyncJobManager: the registry of detached jobs                          *)
(***************************************************************************)

\* number of detached jobs submitted in a run
MaxAsync == 2

AsyncIds == 1 .. MaxAsync
\* the serialised responses a job can end with
Payloads == {"body1", "body2"}
NoEntry == [status |-> "none", result |-> "none"]

\* the machines the registry does not step
coreVars == <<jobVars, queryVars, schedVars, monVars, dispVars>>

\* a step of the registry leaves the other machines alone
AsyncStep == UNCHANGED <<coreVars, counterVars, lookupVars, killVars, indexVars, libVars>>

InitAsync ==
  /\ amJobs = [i \in AsyncIds |-> NoEntry]
  /\ amNextId = 1
  /\ amRet = [op |-> "none", id |-> 0, res |-> "none"]
  /\ amPolled = [i \in AsyncIds |-> "none"]
  /\ amFetched = {}

\* what a lookup of an entry answers
Answer(e) ==
  CASE e.status = "none" -> "unknown"
    [] e.status = "pending" -> "pending"
    [] OTHER -> e.result

\* handleRequestAsync: the next id is assigned and registered as pending
put ==
  /\ amNextId <= MaxAsync
  /\ amJobs' = [amJobs EXCEPT ![amNextId] = [status |-> "pending", result |-> "none"]]
  /\ amNextId' = amNextId + 1
  /\ amRet' = [op |-> "put", id |-> amNextId, res |-> "pending"]
  /\ UNCHANGED <<amPolled, amFetched>>
  /\ AsyncStep

\* finish(id, result): a pending entry is replaced by done or error
finish(id, st, result) ==
  /\ amJobs[id].status = "pending"
  /\ amJobs' = [amJobs EXCEPT ![id] = [status |-> st, result |-> result]]
  /\ amRet' = [op |-> "finish", id |-> id, res |-> result]
  /\ UNCHANGED <<amNextId, amPolled, amFetched>>
  /\ AsyncStep

\* cancel(id): a pending entry is marked cancelled
cancel(id) ==
  /\ amJobs[id].status = "pending"
  /\ amJobs' = [amJobs EXCEPT ![id] = [status |-> "cancelled", result |-> "cancelled"]]
  /\ amRet' = [op |-> "cancel", id |-> id, res |-> "cancelled"]
  /\ UNCHANGED <<amNextId, amPolled, amFetched>>
  /\ AsyncStep

\* poll(id): peek without removing
poll(id) ==
  /\ amRet' = [op |-> "poll", id |-> id, res |-> Answer(amJobs[id])]
  /\ amPolled' = [amPolled EXCEPT ![id] = Answer(amJobs[id])]
  /\ UNCHANGED <<amJobs, amNextId, amFetched>>
  /\ AsyncStep

\* the registry after a fetch of id has taken the entry
Taken_kept(jobs, id) == jobs
Taken(jobs, id) == [jobs EXCEPT ![id] = NoEntry]

\* fetch(id): atomic test-and-remove; a pending entry stays
fetch(id) ==
  /\ amRet' = [op |-> "fetch", id |-> id, res |-> Answer(amJobs[id])]
  /\ IF amJobs[id].status \in {"none", "pending"}
       THEN UNCHANGED <<amJobs, amFetched>>
       ELSE /\ amJobs' = Taken(amJobs, id)
            /\ amFetched' = amFetched \cup {id}
  /\ UNCHANGED <<amNextId, amPolled>>
  /\ AsyncStep

\* the background sweep drops an entry that is older than the TTL; a run
\* chooses which entries have reached that age
Expiry(id) ==
  /\ amJobs[id].status # "none"
  /\ amJobs' = [amJobs EXCEPT ![id] = NoEntry]
  /\ amRet' = [op |-> "expiry", id |-> id, res |-> "none"]
  /\ UNCHANGED <<amNextId, amPolled, amFetched>>
  /\ AsyncStep

(***************************************************************************)
(* BenchmarkCounter<T>: next() under the mutex                             *)
(***************************************************************************)

\* number of bits of the unsigned type T
TWidth == 2
\* number of client threads that share the counter
MaxClients == 2
\* number of next() calls made in a run
MaxCalls == 3

TMod == 2 ^ TWidth
TValues == 0 .. (TMod - 1)
Clients == 1 .. MaxClients
NoCall == -1

\* a step of the counter leaves the other machines alone
CounterStep == UNCHANGED <<coreVars, asyncMgrVars, lookupVars, killVars, indexVars, libVars>>

\* BenchmarkCounter(initialValue, maxValue)
InitCounter ==
  /\ initialValue \in TValues
  /\ maxValue \in TValues
  /\ initialValue <= maxValue
  /\ value = initialValue
  /\ realValue = [c \in Clients |-> NoCall]
  /\ nextCalls = 0
  /\ returned = 0
  /\ lastNext = [old |-> 0, real |-> 0, ret |-> 0, new |-> 0, calls |-> 0]

\* the counter of the specifications that do not step it
CounterUnused == initialValue = 0 /\ maxValue = 0

\* oldValue + realValue in the arithmetic of T
Plus(a, b) == (a + b) % TMod

\* maxValue - oldValue in the arithmetic of T
Minus(a, b) == (a - b + TMod) % TMod

\* next, lines 111-115: realValue is computed before the mutex is taken
NextEnter(c, v) ==
  /\ realValue[c] = NoCall
  /\ nextCalls < MaxCalls
  /\ nextCalls' = nextCalls + 1
  /\ realValue' = [realValue EXCEPT ![c] = IF v = 0 THEN 1 ELSE v]
  /\ UNCHANGED <<initialValue, value, maxValue, returned, lastNext>>
  /\ CounterStep

\* next, lines 117-126: the test, the update and the return under the mutex
NextLocked(c) ==
  /\ realValue[c] # NoCall
  /\ LET oldValue == value
         ret == IF Plus(oldValue, realValue[c]) > maxValue
                  THEN Minus(maxValue, oldValue)
                  ELSE realValue[c]
     IN  /\ value' = IF Plus(oldValue, realValue[c]) > maxValue
                       THEN maxValue
                       ELSE Plus(oldValue, realValue[c])
         /\ returned' = returned + ret
         /\ lastNext' = [old |-> oldValue, real |-> realValue[c], ret |-> ret,
                         new |-> value', calls |-> lastNext.calls + 1]
  /\ realValue' = [realValue EXCEPT ![c] = NoCall]
  /\ UNCHANGED <<initialValue, maxValue, nextCalls>>
  /\ CounterStep

(***************************************************************************)
(* velocypack Slice values, as far as the handlers read them               *)
(***************************************************************************)

\* a Slice is its head byte and the value that follows it
NoneSlice == [head |-> 0, val |-> <<>>]
SmallIntSlice(n) == [head |-> 48 + n, val |-> n]
\* a short UTF-8 string: head 0x40 + length
StringSlice(str) == [head |-> 64 + Len(str), val |-> str]
\* an array with 1-byte index table entries: head 0x06 (0x01 when empty)
ArraySlice(items) == [head |-> IF items = <<>> THEN 1 ELSE 6, val |-> items]
\* an object with 1-byte index table entries: head 0x0b
ObjectSlice(attrs) == [head |-> 11, val |-> attrs]

\* Slice::type: TypeMap[head()]
TypeOf(sl) ==
  CASE sl.head = 0 -> "None"
    [] sl.head \in 1 .. 9 -> "Array"
    [] sl.head \in 10 .. 18 -> "Object"
    [] sl.head = 24 -> "Null"
    [] sl.head \in 48 .. 63 -> "SmallInt"
    [] sl.head \in 64 .. 191 -> "String"
    [] OTHER -> "Other"

isString(sl) == TypeOf(sl) = "String"
isArray(sl) == TypeOf(sl) = "Array"
isObject(sl) == TypeOf(sl) = "Object"

\* Slice::get(attribute) of an Object: the value, or a None slice
get(sl, attribute) ==
  IF attribute \in DOMAIN sl.val THEN sl.val[attribute] ELSE NoneSlice

\* what copyString does for a slice that is not a String
InvalidValueType == "velocypack::Exception(InvalidValueType)"

\* Slice::copyString: a copy of the string, or the exception
copyString(sl) ==
  IF (sl.head >= 64 /\ sl.head <= 190) \/ sl.head = 191
    THEN sl.val
    ELSE InvalidValueType

(***************************************************************************)
(* RestSimpleHandler::execute for PUT /_api/simple/lookup-by-keys          *)
(***************************************************************************)

\* the keys a request can name and a collection can hold
LookupKeys == {<<"a">>, <<"b">>}
\* the collection of the server
TheCollection == <<"c">>

\* the values of the collection attribute of a body
CollectionValues == {NoneSlice, SmallIntSlice(1), StringSlice(<<>>), StringSlice(TheCollection)}
\* the values of the keys attribute of a body
KeysValues ==
  {NoneSlice, StringSlice(<<"a">>)} \cup
  {ArraySlice(ks) : ks \in {<<>>, <<StringSlice(<<"a">>)>>, <<StringSlice(<<"b">>)>>,
                            <<StringSlice(<<"a">>), StringSlice(<<"b">>)>>}}

\* the bodies a request can carry: an object with or without the two
\* attributes, or something that is not an object
Body(col, keys) ==
  ObjectSlice([a \in ({"collection"} \cap (IF col = NoneSlice THEN {} ELSE {"collection"}))
                     \cup ({"keys"} \cap (IF keys = NoneSlice THEN {} ELSE {"keys"}))
                 |-> IF a = "collection" THEN col ELSE keys])
Bodies == {Body(col, keys) : col \in CollectionValues, keys \in KeysValues}
            \cup {ArraySlice(<<>>)}

NoResponse == [code |-> "none", documents |-> <<>>]
ErrorResponse(code) == [code |-> code, documents |-> <<>>]

\* a step of the handler leaves the other machines alone
LookupStep == UNCHANGED <<coreVars, asyncMgrVars, counterVars, killVars, indexVars, libVars>>

InitLookup ==
  /\ lkBody \in Bodies
  /\ lkDocs \in SUBSET LookupKeys
  /\ lkCode \in {"TRI_ERROR_NO_ERROR", "TRI_ERROR_ARANGO_COLLECTION_NOT_FOUND"}
  /\ lkResponse = NoResponse

\* the request of the specifications that do not step the handler
LookupUnused ==
  /\ lkBody = ArraySlice(<<>>)
  /\ lkDocs = {}
  /\ lkCode = "TRI_ERROR_NO_ERROR"

\* HttpResponse::responseCode of an error code
responseCode(code) ==
  IF code = "TRI_ERROR_ARANGO_COLLECTION_NOT_FOUND" THEN "NOT_FOUND" ELSE "SERVER_ERROR"

RECURSIVE SelectSeq2(_, _)
\* FOR doc IN @@collection FILTER doc._key IN @keys RETURN doc: the keys of
\* the request that name a document, in the order of the request
SelectSeq2(keys, docs) ==
  IF keys = <<>> THEN <<>>
  ELSE (IF copyString(Head(keys)) \in docs THEN <<copyString(Head(keys))>> ELSE <<>>)
         \o SelectSeq2(Tail(keys), docs)

\* line 467: the slice whose string is copied into collectionName
NameSlice(slice, val) == slice

\* lookupByKeys, lines 458-555, with its two catch clauses
lookupByKeys(slice, docs, code) ==
  LET col == get(slice, "collection")
      keys == get(slice, "keys")
  IN  IF ~ isString(col) THEN ErrorResponse("BAD")
      ELSE IF copyString(NameSlice(slice, col)) = InvalidValueType
        THEN ErrorResponse("SERVER_ERROR")
      ELSE IF ~ isArray(keys) THEN ErrorResponse("BAD")
      ELSE IF code # "TRI_ERROR_NO_ERROR" THEN ErrorResponse(responseCode(code))
      ELSE [code |-> "OK", documents |-> SelectSeq2(keys.val, docs)]

\* execute, lines 69-100, for the path of lookup-by-keys
ExecuteLookup ==
  /\ lkResponse = NoResponse
  /\ lkResponse' = IF ~ isObject(lkBody)
                     THEN ErrorResponse("BAD")
                     ELSE lookupByKeys(lkBody, lkDocs, lkCode)
  /\ UNCHANGED <<lkBody, lkDocs, lkCode>>
  /\ LookupStep

(***************************************************************************)
(* RestQueryHandler: DELETE /_api/query/{query-id}                         *)
(***************************************************************************)

\* number of queries the server runs
MaxQueries == 3

QueryIds == 1 .. MaxQueries
\* the suffixes a request can name: the ids of the queries, an id no query
\* has, a word that is not a number, and "slow"
Names == {ToString(i) : i \in 1 .. (MaxQueries + 1)} \cup {"abc", "slow"}
Suffixes == {<<>>} \cup {<<n>> : n \in Names} \cup {<<"1", "slow">>}

\* a step of the handler leaves the other machines alone
KillStep == UNCHANGED <<coreVars, asyncMgrVars, counterVars, lookupVars, indexVars, libVars>>

InitKill ==
  /\ queryList = [i \in QueryIds |-> "none"]
  /\ suffix = <<>>
  /\ killRes = "none"
  /\ delResponse = "none"

\* StringUtils::uint64: the number a string of digits denotes, 0 otherwise
uint64(name) ==
  IF \E i \in 1 .. (MaxQueries + 1) : ToString(i) = name
    THEN CHOOSE i \in 1 .. (MaxQueries + 1) : ToString(i) = name
    ELSE 0

\* QueryList::kill: the kill flag of a query of the list is set
kill(list, id) ==
  IF id \in DOMAIN list /\ list[id] # "none"
    THEN "TRI_ERROR_NO_ERROR"
    ELSE "TRI_ERROR_QUERY_NOT_FOUND"

\* the HTTP code of generateError at line 413
KillFailed == "BAD"

\* a query starts: it is entered into the list
QueryStarts(id) ==
  /\ queryList[id] = "none"
  /\ queryList' = [queryList EXCEPT ![id] = "running"]
  /\ UNCHANGED <<suffix, killRes, delResponse>>
  /\ KillStep

\* a query ends: it is removed from the list
QueryEnds(id) ==
  /\ queryList[id] # "none"
  /\ queryList' = [queryList EXCEPT ![id] = "none"]
  /\ UNCHANGED <<suffix, killRes, delResponse>>
  /\ KillStep

\* deleteQuery(), lines 426-442, with deleteQuery(name), lines 392-417, and
\* deleteQuerySlow, lines 342-359
DeleteQuery(sfx) ==
  /\ suffix' = sfx
  /\ IF Len(sfx) # 1
       THEN /\ delResponse' = "BAD"
            /\ killRes' = "none"
            /\ UNCHANGED queryList
       ELSE IF sfx[1] = "slow"
         THEN /\ delResponse' = "OK"
              /\ killRes' = "none"
              /\ UNCHANGED queryList
         ELSE LET id == uint64(sfx[1])
                  res == kill(queryList, id)
              IN  /\ killRes' = res
                  /\ IF res = "TRI_ERROR_NO_ERROR"
                       THEN /\ queryList' = [queryList EXCEPT ![id] = "killed"]
                            /\ delResponse' = "OK"
                       ELSE /\ UNCHANGED queryList
                            /\ delResponse' = KillFailed
  /\ KillStep

(***************************************************************************)
(* Hash index: mvccInsert, mvccRemove, mvccByExampleHash                   *)
(***************************************************************************)

\* number of documents inserted in a run
MaxDocs == 3
\* the largest number used as a value
MaxValue == 2

\* { } : a document or an example that does not bind the attribute
Unbound == "unbound"
\* { value: null }
NullValue == "null"
\* the values of the attribute in a document or an example
\* the numbers used as values, as they are written in a document
Numbers == {ToString(i) : i \in 1 .. MaxValue}
Values == Numbers \cup {NullValue, Unbound}
Keys == 1 .. MaxDocs
NoDoc == "none"
UNIQUE_CONSTRAINT_VIOLATED == 1210

\* a step of the index leaves the other machines alone
IndexStep == UNCHANGED <<coreVars, asyncMgrVars, counterVars, lookupVars, killVars, libVars>>

\* db._create and ensureIndex({type: "hash", fields: ["value"], sparse, unique})
InitIndex ==
  /\ sparse \in BOOLEAN
  /\ unique \in BOOLEAN
  /\ documents = [k \in Keys |-> NoDoc]
  /\ entries = {}
  /\ nextKey = 1
  /\ rejected = FALSE
  /\ lastOp = [op |-> "none", value |-> NoDoc, errorNum |-> 0]

\* the index of the specifications that do not step it
IndexUnused == sparse = FALSE /\ unique = FALSE

\* the value under which a document or an example is hashed: an attribute
\* that is not bound counts as null
IndexedValue_asIs(v) == v
IndexedValue(v) == IF v = Unbound THEN NullValue ELSE v

\* a sparse index leaves out the documents whose value is null
Indexable_always(v) == TRUE
Indexable(v) == ~ (sparse /\ IndexedValue(v) = NullValue)

\* mvccByExampleHash(idx, example): the keys of the documents the index
\* holds under the value of the example
mvccByExampleHash(ix, example) ==
  {k \in Keys : <<IndexedValue(example), k>> \in ix}

\* the unique constraint of the index forbids the insertion of v
UniqueViolation_never(v) == FALSE
UniqueViolation(v) ==
  /\ unique
  /\ Indexable(v)
  /\ mvccByExampleHash(entries, v) # {}

\* mvccInsert({value: v}) or mvccInsert({}): the document is stored and
\* indexed, or the insert fails with error 1210 and changes nothing
mvccInsert(v) ==
  /\ nextKey <= MaxDocs
  /\ IF UniqueViolation(v)
       THEN /\ lastOp' = [op |-> "insert", value |-> v,
                          errorNum |-> UNIQUE_CONSTRAINT_VIOLATED]
            /\ rejected' = TRUE
            /\ UNCHANGED <<documents, entries, nextKey>>
       ELSE /\ lastOp' = [op |-> "insert", value |-> v, errorNum |-> 0]
            /\ documents' = [documents EXCEPT ![nextKey] = v]
            /\ entries' = IF Indexable(v)
                            THEN entries \cup {<<IndexedValue(v), nextKey>>}
                            ELSE entries
            /\ nextKey' = nextKey + 1
            /\ UNCHANGED rejected
  /\ UNCHANGED <<sparse, unique>>
  /\ IndexStep

\* mvccRemove(key): the document leaves the collection and the index
mvccRemove(k) ==
  /\ documents[k] # NoDoc
  /\ documents' = [documents EXCEPT ![k] = NoDoc]
  /\ entries' = {e \in entries : e[2] # k}
  /\ lastOp' = [op |-> "remove", value |-> documents[k], errorNum |-> 0]
  /\ UNCHANGED <<sparse, unique, nextKey, rejected>>
  /\ IndexStep

(***************************************************************************)
(* Collection::merge                                                       *)
(***************************************************************************)

\* number of different scalar values an attribute can have
MaxScalar == 1

\* the attribute names, in the order an iterator visits them
AttrNames == <<"a", "b">>

\* an attribute of an object: its name and the slice of its value
Entry(k, v) == [key |-> k, value |-> v]

\* an object whose attributes are the entries es (head 0x0b, 0x0a when empty)
BuiltObject(es) == [head |-> IF es = <<>> THEN 10 ELSE 11, val |-> es]

\* the objects over AttrNames whose values are drawn from vs
ObjectsOver(vs) ==
  {BuiltObject(SelectSeq([i \in 1 .. Len(AttrNames) |-> Entry(AttrNames[i], f[i])],
                         LAMBDA e : e.value # NoneSlice)) :
     f \in [1 .. Len(AttrNames) -> vs \cup {NoneSlice}]}

Scalars == {SmallIntSlice(n) : n \in 1 .. MaxScalar}

\* the arguments of merge: objects whose values are scalars or objects of
\* scalars, and a value that is not an object
MergeArguments == ObjectsOver(Scalars \cup ObjectsOver(Scalars)) \cup {SmallIntSlice(1)}

\* a step of merge leaves the other machines alone
MergeStep == UNCHANGED <<coreVars, restVars, intVars, bufVars>>

InitMerge ==
  /\ mgLeft \in MergeArguments
  /\ mgRight \in MergeArguments
  /\ mgMergeValues \in BOOLEAN
  /\ mgResult = NoneSlice
  /\ mgThrown = "none"

\* the arguments of the specifications that do not step merge
MergeUnused ==
  /\ mgLeft = SmallIntSlice(1)
  /\ mgRight = SmallIntSlice(1)
  /\ mgMergeValues = FALSE

isNone(sl) == TypeOf(sl) = "None"

\* the attribute names of an object, as a set
NamesOf(obj) == {obj.val[i].key : i \in 1 .. Len(obj.val)}

\* the value of attribute k of an object that has it
ValueOf(obj, k) ==
  obj.val[CHOOSE i \in 1 .. Len(obj.val) : obj.val[i].key = k].value

\* lines 315-319: the map entry of a key that took the right value is set
\* to a None slice, so that the loop at lines 325-330 does not add it again
Cleared(left, right, mergeValues) ==
  {k \in NamesOf(left) \cap NamesOf(right) :
     ~ (mergeValues /\ isObject(ValueOf(left, k)) /\ isObject(ValueOf(right, k)))}

\* Collection::merge, lines 290-334, for two objects: the entries added to
\* the Builder while left is iterated, then those of the values that remain
\* in the map of right
RECURSIVE merge(_, _, _)
merge(left, right, mergeValues) ==
  LET fromLeft ==
        [i \in 1 .. Len(left.val) |->
           LET key == left.val[i].key
               v == left.val[i].value IN
             IF key \notin NamesOf(right)
               THEN Entry(key, v)
               ELSE IF mergeValues /\ isObject(v) /\ isObject(ValueOf(right, key))
                 THEN Entry(key, merge(v, ValueOf(right, key), TRUE))
                 ELSE Entry(key, ValueOf(right, key))]
      remaining ==
        SelectSeq(right.val,
                  LAMBDA e : e.key \notin Cleared(left, right, mergeValues)
                             /\ ~ isNone(e.value))
  IN BuiltObject(fromLeft \o remaining)

\* a call of Collection::merge, with the type check of lines 291-293
Merge ==
  /\ mgResult = NoneSlice
  /\ mgThrown = "none"
  /\ IF ~ isObject(mgLeft) \/ ~ isObject(mgRight)
       THEN /\ mgThrown' = InvalidValueType
            /\ UNCHANGED mgResult
       ELSE /\ mgResult' = merge(mgLeft, mgRight, mgMergeValues)
            /\ UNCHANGED mgThrown
  /\ UNCHANGED <<mgLeft, mgRight, mgMergeValues>>
  /\ MergeStep

(***************************************************************************)
(* Builder::addInt, Slice::getInt                                          *)
(***************************************************************************)

\* number of bytes of int64_t and uint64_t
IntBytes == 3
\* number of bits of a byte
ByteBits == 4

ByteMod == 2 ^ ByteBits
WordMod == 2 ^ (ByteBits * IntBytes)
INT64_MAX == (WordMod \div 2) - 1
INT64_MIN == - (WordMod \div 2)
\* the values of int64_t
Int64 == INT64_MIN .. INT64_MAX

\* a conversion to uint64_t, and the arithmetic of uint64_t
U64(x) == x % WordMod

\* velocypack-common.h, lines 88-98
ToUInt64(v) ==
  LET shift2 == WordMod \div 2
      shift == shift2 - 1 IN
    IF v >= 0 THEN U64(v) ELSE U64(U64((v + shift) + 1) + shift2)

\* velocypack-common.h, lines 100-105
ToInt64(v) ==
  LET shift2 == WordMod \div 2
      shift == shift2 - 1 IN
    IF v >= shift2 THEN ((v - shift2) - shift) - 1 ELSE v

\* the loop of intLength, lines 456-460: do { xSize++; x >>= 8; } while (x >= 0x80)
RECURSIVE intLengthLoop(_, _)
intLengthLoop(x, xSize) ==
  IF (x \div ByteMod) >= ByteMod \div 2
    THEN intLengthLoop(x \div ByteMod, xSize + 1)
    ELSE xSize + 1

\* Builder::intLength, lines 448-462
intLength_noShortcut(v) ==
  intLengthLoop(IF v >= 0 THEN U64(v) ELSE U64(- (v + 1)), 0) + 1
intLength(v) ==
  IF v >= - (ByteMod \div 2) /\ v <= (ByteMod \div 2) - 1
    THEN 1
    ELSE intLengthLoop(IF v >= 0 THEN U64(v) ELSE U64(- (v + 1)), 0) + 1

\* Builder::appendInt, lines 464-482: the head byte and the bytes of x, the
\* least significant first
appendInt(v, base) ==
  LET vSize == intLength(v)
      shift == 2 ^ (vSize * ByteBits - 1)
      x == IF vSize = IntBytes
             THEN ToUInt64(v)
             ELSE IF v >= 0 THEN U64(v) ELSE U64(U64(v + shift) + shift) IN
    [head |-> base + vSize,
     val |-> [i \in 1 .. vSize |-> (x \div (ByteMod ^ (i - 1))) % ByteMod]]

\* Builder::addInt, lines 320-332
addInt(v) ==
  IF v >= 0 /\ v <= 9 THEN [head |-> 48 + v, val |-> <<>>]
  ELSE IF v < 0 /\ v >= -6 THEN [head |-> 64 + v, val |-> <<>>]
  ELSE appendInt(v, 31)

\* Slice::readInteger, part_004 lines 913-927
RECURSIVE readInteger(_, _)
readInteger(bytes, numBytes) ==
  IF numBytes = 0
    THEN 0
    ELSE U64(readInteger(bytes, numBytes - 1)
               + bytes[numBytes] * (ByteMod ^ (numBytes - 1)))

Returned(v) == [value |-> v, thrown |-> "none"]
Thrown(e) == [value |-> 0, thrown |-> e]
NotRead == Thrown("pending")

\* Slice::getSmallInt, lines 510-531, for a SmallInt
getSmallInt(sl) ==
  IF sl.head >= 48 /\ sl.head <= 57
    THEN Returned(sl.head - 48)
    ELSE Returned((sl.head - 58) - 6)

\* Slice::getInt, lines 446-476; the head byte of an Int of the full width
\* is 0x1f + IntBytes (0x27)
getInt(sl) ==
  LET h == sl.head IN
    IF h >= 32 /\ h <= 39
      THEN LET v == readInteger(sl.val, h - 31)
               shift == 2 ^ ((h - 31) * ByteBits - 1) IN
             IF h = 31 + IntBytes
               THEN Returned(ToInt64(v))
               ELSE Returned(IF v < shift THEN v ELSE v - (shift * 2))
    ELSE IF h >= 40 /\ h <= 47
      THEN LET v == readInteger(sl.val, h - 39) IN
             IF v > INT64_MAX THEN Thrown("NumberOutOfRange") ELSE Returned(v)
    ELSE IF h >= 48 /\ h <= 63
      THEN getSmallInt(sl)
    ELSE Thrown(InvalidValueType)

\* a step of the Builder leaves the other machines alone
IntStep == UNCHANGED <<coreVars, restVars, mergeVars, bufVars>>

InitInt ==
  /\ aiValue \in Int64
  /\ aiSlice = NoneSlice
  /\ aiRead = NotRead

\* b.add(Value(v)) for an int64_t v
AddInt ==
  /\ aiSlice = NoneSlice
  /\ aiSlice' = addInt(aiValue)
  /\ UNCHANGED <<aiValue, aiRead>>
  /\ IntStep

\* b.slice().getInt()
GetInt ==
  /\ aiSlice # NoneSlice
  /\ aiRead = NotRead
  /\ aiRead' = getInt(aiSlice)
  /\ UNCHANGED <<aiValue, aiSlice>>
  /\ IntStep

(***************************************************************************)
(* velocypack Buffer<T> (Buffer.h)                                         *)
(***************************************************************************)

\* sizeof(_local); T _local[192] in the source, scaled down
LocalSize == 4
\* the largest _pos + len that a call asks for
MaxLength == 6
\* the Buffer objects of the program
MaxBuffers == 2
BufferIds == 1 .. MaxBuffers
\* the len of an append, a reserve, a prealloc or of Buffer(expectedLength)
Lengths == 0 .. LocalSize

\* storage that holds no Buffer (before its constructor, after its destructor)
NoBuffer == [buffer |-> "none", alloc |-> 0, pos |-> 0]

\* Buffer(): _buffer(_local), _alloc(sizeof(_local)), _pos(0)
Buffer == [buffer |-> "local", alloc |-> LocalSize, pos |-> 0]

\* reset(): a heap block is deleted and _local taken again; _pos = 0
reset(b) ==
  IF b.buffer # "local"
    THEN [buffer |-> "local", alloc |-> LocalSize, pos |-> 0]
    ELSE [b EXCEPT !.pos = 0]

\* static_cast<ValueLength>(GrowthFactor * _pos), GrowthFactor = 1.25
Grown(p) == (5 * p) \div 4

\* newLen of reserve(len)
newLen(b, len) ==
  LET asked   == b.pos + len
      atLeast == IF asked < LocalSize THEN LocalSize ELSE asked
  IN  IF b.pos > 0 /\ 4 * atLeast < 5 * b.pos THEN Grown(b.pos) ELSE atLeast

\* reserve(len): nothing unless _pos + len >= _alloc, then a new heap block
reserve(b, len) ==
  IF b.pos + len < b.alloc
    THEN b
    ELSE [buffer |-> "heap", alloc |-> newLen(b, len), pos |-> b.pos]

\* one of the two VELOCYPACK_ASSERTs of reserve(len) does not hold
reserveAsserts(b, len) ==
  /\ ~(b.pos + len < b.alloc)
  /\ \/ ~(b.pos + len >= LocalSize)
     \/ ~(newLen(b, len) > b.pos)

\* the body shared by Buffer(Buffer const&) and operator=: base is *this
\* after Buffer() or after reset()
copyFrom(base, that) ==
  IF that.pos > 0
    THEN [buffer |-> IF that.pos > LocalSize THEN "heap" ELSE base.buffer,
          alloc  |-> that.pos,
          pos    |-> that.pos]
    ELSE base

\* Buffer(Buffer&& that): the new object
movedTo(that) ==
  IF that.buffer = "local"
    THEN [Buffer EXCEPT !.pos = that.pos]
    ELSE [buffer |-> "heap", alloc |-> that.alloc, pos |-> that.pos]

\* Buffer(Buffer&& that): what is left of that
movedFrom(that) ==
  IF that.buffer = "local"
    THEN [that EXCEPT !.pos = 0]
    ELSE [buffer |-> "local", alloc |-> LocalSize, pos |-> 0]

\* a step of a Buffer leaves the other machines alone
BufStep == UNCHANGED <<coreVars, restVars, mergeVars, intVars>>

InitBuffer ==
  /\ buffers = [i \in BufferIds |-> NoBuffer]
  /\ asserted = FALSE

\* Buffer()
Construct(i) ==
  /\ buffers[i] = NoBuffer
  /\ buffers' = [buffers EXCEPT ![i] = Buffer]
  /\ UNCHANGED asserted
  /\ BufStep

\* explicit Buffer(ValueLength expectedLength)
ConstructLength(i, len) ==
  /\ buffers[i] = NoBuffer
  /\ buffers' = [buffers EXCEPT ![i] = reserve(Buffer, len)]
  /\ asserted' = (asserted \/ reserveAsserts(Buffer, len))
  /\ BufStep

\* Buffer(Buffer const& that)
CopyConstruct(i, j) ==
  /\ buffers[i] = NoBuffer
  /\ buffers[j] # NoBuffer
  /\ buffers' = [buffers EXCEPT ![i] = copyFrom(Buffer, buffers[j])]
  /\ UNCHANGED asserted
  /\ BufStep

\* operator=(Buffer const& that)
CopyAssign(i, j) ==
  /\ buffers[i] # NoBuffer
  /\ buffers[j] # NoBuffer
  /\ buffers' = IF i # j
                  THEN [buffers EXCEPT ![i] = copyFrom(reset(buffers[i]), buffers[j])]
                  ELSE buffers
  /\ UNCHANGED asserted
  /\ BufStep

\* Buffer(Buffer&& that)
MoveConstruct(i, j) ==
  /\ buffers[i] = NoBuffer
  /\ buffers[j] # NoBuffer
  /\ buffers' = [buffers EXCEPT ![i] = movedTo(buffers[j]), ![j] = movedFrom(buffers[j])]
  /\ UNCHANGED asserted
  /\ BufStep

\* ~Buffer()
Destruct(i) ==
  /\ buffers[i] # NoBuffer
  /\ buffers' = [buffers EXCEPT ![i] = NoBuffer]
  /\ UNCHANGED asserted
  /\ BufStep

\* reset(), clear()
Reset(i) ==
  /\ buffers[i] # NoBuffer
  /\ buffers' = [buffers EXCEPT ![i] = reset(buffers[i])]
  /\ UNCHANGED asserted
  /\ BufStep

\* append(p, len); push_back(c) and append(c) are the case len = 1
AppendTo(i, len) ==
  /\ buffers[i] # NoBuffer
  /\ buffers[i].pos + len <= MaxLength
  /\ buffers' = [buffers EXCEPT ![i] = [reserve(buffers[i], len) EXCEPT !.pos = @ + len]]
  /\ asserted' = (asserted \/ reserveAsserts(buffers[i], len))
  /\ BufStep

\* reserve(len)
Reserve(i, len) ==
  /\ buffers[i] # NoBuffer
  /\ buffers[i].pos + len <= MaxLength
  /\ buffers' = [buffers EXCEPT ![i] = reserve(buffers[i], len)]
  /\ asserted' = (asserted \/ reserveAsserts(buffers[i], len))
  /\ BufStep

\* prealloc(len)
Prealloc(i, len) ==
  /\ buffers[i] # NoBuffer
  /\ buffers[i].pos + len <= MaxLength
  /\ buffers' = [buffers EXCEPT ![i] = [reserve(buffers[i], len) EXCEPT !.pos = @ + len]]
  /\ asserted' = (asserted \/ reserveAsserts(buffers[i], len))
  /\ BufStep

(***************************************************************************)
(* Specifications                                                          *)
(***************************************************************************)

\* the library machines that a specification does not step
LibUnused ==
  /\ MergeUnused /\ mgResult = NoneSlice /\ mgThrown = "none"
  /\ aiValue = 0 /\ InitInt
  /\ InitBuffer

\* the machines a specification does not step stay as constructed
InitRest ==
  /\ InitAsync
  /\ InitCounter /\ CounterUnused
  /\ InitLookup /\ LookupUnused
  /\ InitKill
  /\ InitIndex /\ IndexUnused
  /\ LibUnused
InitOfJob == InitJob /\ InitQuery /\ InitSched /\ InitWork /\ InitDisp /\ InitRest
InitOfQuery == InitJob /\ ctorTask = NULL /\ InitQuery /\ InitSched /\ InitWork /\ InitDisp /\ InitRest
InitOfSched == InitJob /\ ctorTask = NULL /\ InitQuery /\ InitSched /\ InitWork /\ InitDisp /\ InitRest
InitOfDisp == InitJob /\ ctorTask = NULL /\ InitQuery /\ InitSched /\ InitWork /\ InitDisp /\ InitRest
InitOfAsync == InitJob /\ ctorTask = NULL /\ InitQuery /\ InitSched /\ InitWork /\ InitDisp /\ InitRest
\* the machines of the scheduler and the dispatcher, not stepped
InitCore == InitJob /\ ctorTask = NULL /\ InitQuery /\ InitSched /\ InitWork /\ InitDisp
InitOfCounter ==
  InitCore /\ InitAsync /\ InitCounter /\ InitLookup /\ LookupUnused /\ InitKill /\ InitIndex /\ IndexUnused /\ LibUnused
InitOfLookup ==
  InitCore /\ InitAsync /\ InitCounter /\ CounterUnused /\ InitLookup /\ InitKill /\ InitIndex /\ IndexUnused /\ LibUnused
InitOfIndex ==
  InitCore /\ InitAsync /\ InitCounter /\ CounterUnused /\ InitLookup /\ LookupUnused /\ InitKill /\ InitIndex /\ LibUnused
InitOfKill == InitCore /\ InitRest
InitOfWork == InitJob /\ ctorTask = NULL /\ InitQuery /\ InitSched /\ InitWork /\ InitDisp /\ InitRest

NextJob ==
  \/ WorkBegin
  \/ WorkPrepare
  \/ WorkExecute
  \/ WorkCatch
  \/ WorkFinish
  \/ WorkerCatch
  \/ CleanupEnter
  \/ CleanupCheck
  \/ CleanupSetHandler
  \/ CleanupNullHandler
  \/ CleanupSignal
  \/ CleanupClear
  \/ CleanupDrop
  \/ ShutdownSpin
  \/ ShutdownNull
  \/ ShutdownDrop
  \/ TaskDestroyed
  \/ Cancel

NextQuery ==
  \/ RemoveByKeysBegin
  \/ registerQuery
  \/ KillElsewhere
  \/ ExecuteQuery
  \/ unregisterQuery
  \/ QueryResult
  \/ CatchClause
  \/ cancelQuery

NextSched ==
  \/ Open
  \/ BeginShutdown
  \/ \E c \in Threads, t \in Tasks : RegisterTask(c, t)
  \/ \E c \in Threads, t \in Tasks : UnregisterTask(c, t)
  \/ \E c \in Threads, t \in Tasks : DestroyTask(c, t)
  \/ \E c \in Others : Enqueue(c)
  \/ RunSpin
  \/ RunTest
  \/ EventLoopReturns
  \/ EventLoopThrows
  \/ Drain
  \/ SetStopped
  \/ FinalDrain

NextWork ==
  \/ WorkBegin
  \/ WorkPrepare
  \/ WorkExecute
  \/ WorkCatch
  \/ WorkFinish
  \/ WorkerCatch
  \/ CleanupEnter
  \/ CleanupDrop
  \/ \E destroy \in BOOLEAN : HandlerWorkStack(DispatcherThread, OtherHandler, destroy)
  \/ HandlerWorkStackDtor(DispatcherThread)
  \/ MonitorDrain

NextDisp ==
  \/ \E j \in DJobs : Submit(j)
  \/ \E t \in DWorkers : Dequeue(t)
  \/ \E t \in DWorkers : Complete(t)

NextAsync ==
  \/ put
  \/ \E id \in AsyncIds, st \in {"done", "error"}, result \in Payloads : finish(id, st, result)
  \/ \E id \in AsyncIds : cancel(id)
  \/ \E id \in AsyncIds : poll(id)
  \/ \E id \in AsyncIds : fetch(id)
  \/ \E id \in AsyncIds : Expiry(id)

NextCounter ==
  \/ \E c \in Clients, v \in TValues : NextEnter(c, v)
  \/ \E c \in Clients : NextLocked(c)

NextLookup == ExecuteLookup

NextKill ==
  \/ \E id \in QueryIds : QueryStarts(id)
  \/ \E id \in QueryIds : QueryEnds(id)
  \/ \E sfx \in Suffixes : DeleteQuery(sfx)

NextIndex ==
  \/ \E v \in Values : mvccInsert(v)
  \/ \E k \in Keys : mvccRemove(k)

SpecJob == InitOfJob /\ [][NextJob]_vars

InitOfMerge ==
  /\ InitCore /\ InitAsync /\ InitCounter /\ CounterUnused /\ InitLookup /\ LookupUnused
  /\ InitKill /\ InitIndex /\ IndexUnused
  /\ InitMerge
  /\ aiValue = 0 /\ InitInt
  /\ InitBuffer
NextMerge == Merge
SpecMerge == InitOfMerge /\ [][NextMerge]_vars

InitOfInt ==
  /\ InitCore /\ InitAsync /\ InitCounter /\ CounterUnused /\ InitLookup /\ LookupUnused
  /\ InitKill /\ InitIndex /\ IndexUnused
  /\ MergeUnused /\ mgResult = NoneSlice /\ mgThrown = "none"
  /\ InitInt
  /\ InitBuffer
NextInt == AddInt \/ GetInt
SpecInt == InitOfInt /\ [][NextInt]_vars

InitOfBuffer ==
  /\ InitCore /\ InitAsync /\ InitCounter /\ CounterUnused /\ InitLookup /\ LookupUnused
  /\ InitKill /\ InitIndex /\ IndexUnused
  /\ MergeUnused /\ mgResult = NoneSlice /\ mgThrown = "none"
  /\ aiValue = 0 /\ InitInt
  /\ InitBuffer
NextBuffer ==
  \/ \E i \in BufferIds : Construct(i)
  \/ \E i \in BufferIds, len \in Lengths : ConstructLength(i, len)
  \/ \E i, j \in BufferIds : CopyConstruct(i, j)
  \/ \E i, j \in BufferIds : CopyAssign(i, j)
  \/ \E i, j \in BufferIds : MoveConstruct(i, j)
  \/ \E i \in BufferIds : Destruct(i)
  \/ \E i \in BufferIds : Reset(i)
  \/ \E i \in BufferIds, len \in Lengths : AppendTo(i, len)
  \/ \E i \in BufferIds, len \in Lengths : Reserve(i, len)
  \/ \E i \in BufferIds, len \in Lengths : Prealloc(i, len)
SpecBuffer == InitOfBuffer /\ [][NextBuffer]_vars

\* the dispatcher worker that runs cleanup() and the thread that runs
\* beginShutdown() are scheduled: a thread that can take its next step takes it
JobFairness ==
  /\ WF_vars(CleanupCheck)
  /\ WF_vars(CleanupSetHandler)
  /\ WF_vars(CleanupNullHandler)
  /\ WF_vars(CleanupSignal)
  /\ WF_vars(CleanupClear)
  /\ WF_vars(ShutdownSpin)
  /\ WF_vars(ShutdownNull)
SpecJobLive == SpecJob /\ JobFairness
SpecIndex == InitOfIndex /\ [][NextIndex]_vars
SpecKill == InitOfKill /\ [][NextKill]_vars
SpecLookup == InitOfLookup /\ [][NextLookup]_vars
SpecCounter == InitOfCounter /\ [][NextCounter]_vars
SpecAsync == InitOfAsync /\ [][NextAsync]_vars
SpecDisp == InitOfDisp /\ [][NextDisp]_vars
SpecWork == InitOfWork /\ [][NextWork]_vars
SpecQuery == InitOfQuery /\ [][NextQuery]_vars
SpecSched == InitOfSched /\ [][NextSched]_vars

\* the scheduler thread is scheduled: each step of run() that can be taken is
\* taken eventually; an exception of the event loop and the calls of the
\* other threads may or may not happen
RunFairness ==
  /\ WF_vars(RunSpin)
  /\ WF_vars(RunTest)
  /\ WF_vars(EventLoopReturns)
  /\ WF_vars(Drain)
  /\ WF_vars(SetStopped)
  /\ WF_vars(FinalDrain)

SpecSchedLive == SpecSched /\ RunFairness

(***************************************************************************)
(* Properties of HttpServerJob (SpecJob)                                   *)
(***************************************************************************)

\* C1: cleanup makes no call (setHandler, signal) on the task after
\* beginShutdown has returned, and every call it makes is on a task that is
\* still alive.
C1_NoCallAfterShutdown ==
  \A i \in DOMAIN calls : calls[i].alive /\ ~calls[i].afterShutdown

\* C2: cleanup makes at most the two calls setHandler, signal on the task, in
\* that order and each once; when it saw the task pointer set and went on, both
\* calls were made and _handler is null; once the signal is raised _handler is
\* null; the Job's destructor never releases a handler that was handed over;
\* and the Job and the task hold the handler together only between lines 172
\* and 173.
C2_HandoffOnce ==
  /\ Len(calls) <= 2
  /\ \A i \in DOMAIN calls : calls[i].op = (IF i = 1 THEN "setHandler" ELSE "signal")
  /\ (seenTask # NULL /\ pcW \in {"clear", "drop", "done"})
        => (Len(calls) = 2 /\ handler = NULL)
  /\ Len(calls) = 2 => handler = NULL
  /\ releaseCnt > 0 => calls = <<>>
  /\ (calls # <<>> /\ handler # NULL) => pcW \in {"nullHandler", "crashed"}

\* C2 witness: cleanup is through, after a hand-off to a living task
C2_Witness ==
  /\ pcW = "done"
  /\ Len(calls) = 2
  /\ \A i \in DOMAIN calls : calls[i].alive
  /\ handler = NULL

\* C3: a Job constructed with a task is deleted at most once, by the one of
\* cleanup and beginShutdown that made the second decrement, it is deleted once
\* both have ended, and no step of either touches a field of the deleted Job.
C3_DeletedOnce ==
  ctorTask # NULL =>
    /\ Len(deletedBy) <= 1
    /\ ~badAccess
    /\ JobDeleted => /\ refCount = 0
                     /\ Len(decOrder) = 2
                     /\ deletedBy[1] = decOrder[2]
    /\ (pcW = "done" /\ ShutdownReturned) => JobDeleted

\* C3 witness: beginShutdown dropped the first reference, cleanup the second
C3_Witness ==
  /\ ctorTask # NULL
  /\ decOrder = <<"beginShutdown", "cleanup">>
  /\ deletedBy = <<"cleanup">>

\* C4: if beginShutdown had returned when cleanup started, cleanup makes no
\* call on the task, the handler stays with the Job until the Job is deleted,
\* and it is released exactly once, by the delete that ends cleanup.
C4_ShutdownBeforeCleanup ==
  shutdownFirst =>
    /\ calls = <<>>
    /\ releaseCnt <= 1
    /\ ~JobDeleted => (handler = TheHandler /\ releaseCnt = 0)
    /\ pcW = "done" => (deletedBy = <<"cleanup">> /\ releaseCnt = 1)

\* C4 witness: cleanup has ended after a beginShutdown that came first
C4_Witness ==
  /\ shutdownFirst
  /\ pcW = "done"
  /\ prepareCnt = 1

\* C5: for a detached Job cleanup calls finishAsyncJob once and makes no call
\* on a task; the registry entry leaves "pending" once; cleanup's decrement is
\* the only one and deletes the Job.
C5_DetachedPublishedOnce ==
  detached =>
    /\ calls = <<>>
    /\ finishCnt <= 1
    /\ asyncMoves = finishCnt
    /\ finishCnt = 0 => asyncStatus = "pending"
    /\ pcW \in {"drop", "done"} => (finishCnt = 1 /\ asyncStatus \in {"done", "error"})
    /\ pcW = "done" => /\ decOrder = <<"cleanup">>
                       /\ deletedBy = <<"cleanup">>
                       /\ refCount = 0

\* C5 witness: the cleanup of a detached Job has ended
C5_Witness ==
  /\ detached
  /\ pcW = "done"
  /\ asyncStatus = "done"

\* C6: isDetached() is true iff the constructor got a null task, whatever
\* _task is now; _refCount starts at 1 for a detached Job and at 2 otherwise,
\* and is that start value less the decrements made, within 0 .. 2.
C6_DetachedFixed ==
  /\ isDetached <=> (ctorTask = NULL)
  /\ refCount \in {0, 1, 2}
  /\ refCount = (IF ctorTask = NULL THEN 1 ELSE 2) - Len(decOrder)

\* C6 witness: beginShutdown has set _task to null on a living Job that was
\* constructed with a task
C6_Witness ==
  /\ ctorTask # NULL
  /\ task = NULL
  /\ ~JobDeleted
  /\ pcW = "prepare"

\* C7: finalizeExecute is never called more often than prepareExecute; while
\* execute runs or has just ended, one prepareExecute is open; at every other
\* point of work() and after it the two were called equally often.
C7_PrepareFinalize ==
  /\ finalizeCnt <= prepareCnt
  /\ prepareCnt <= 1
  /\ pcW \in {"execute", "catch", "finalize"} => (prepareCnt = 1 /\ finalizeCnt = 0)
  /\ pcW \notin {"execute", "catch", "finalize"} => finalizeCnt = prepareCnt

\* C7 witness: work() was left by an exception of execute
C7_Witness ==
  /\ execThrew
  /\ workResult = "threw"
  /\ prepareCnt = 1
  /\ finalizeCnt = 1

C9_CancelOnlyLiveQuery ==
  /\ query # NULL => qAlive
  /\ \A c \in cancelLog : c.target # "destroyed" /\ (c.ret <=> c.target = "alive")

(***************************************************************************)
(* Properties of SchedulerThread (SpecSched)                               *)
(***************************************************************************)

\* C10: setupTask and cleanupTask are run by the scheduler thread only; a step
\* of registerTask, unregisterTask or destroyTask made by another thread leaves
\* the task counter alone, leaves the tasks alone (but for the deleteTask of a
\* destroyTask on a stopped thread), and either leaves the queue alone or
\* appends its one command to it, sets _hasWork and wakes the loop.
C10_LoopThreadOnly ==
  [][ /\ \A r \in ioLog' : r.thread = LoopThread
      /\ (lastCall' # lastCall /\ lastCall'.thread \in Others) =>
            /\ numberTasks' = numberTasks
            /\ \/ taskSt' = taskSt
               \/ /\ stopped
                  /\ lastCall'.op = "destroyTask"
                  /\ taskSt' = [taskSt EXCEPT ![lastCall'.task] = "deleted"]
            /\ \/ queue' = queue
               \/ /\ queue' = Append(queue, [work |-> lastCall'.op, task |-> lastCall'.task])
                  /\ lastCall'.phase = 2
                  /\ hasWork'
                  /\ wake'
    ]_vars

\* C10 witness: the only call made is a registerTask that went through the
\* queue, so it came from another thread, and the task has been set up, by the
\* scheduler thread
C10_Witness ==
  \E t \in Tasks :
    /\ called = [u \in Tasks |-> IF u = t THEN {"register"} ELSE {}]
    /\ hasWork
    /\ queue = <<>>
    /\ taskSt[t] = "setup"
    /\ ioLog = {[op |-> "setupTask", thread |-> LoopThread]}

\* C11: a registerTask made by the scheduler thread runs setupTask in the
\* call itself and leaves the queue alone; a registerTask made by another
\* thread that found the thread not stopped runs no setupTask, and its second
\* half appends exactly the command SETUP for its task at the end of the
\* queue, sets the wakeup and returns true.
C11_RegisterTask ==
  [][ /\ (lastCall' # lastCall /\ lastCall'.op = "registerTask"
            /\ lastCall'.thread = LoopThread) =>
            /\ queue' = queue
            /\ hasWork' = hasWork
            /\ pcE' = pcE
            /\ [op |-> "setupTask", thread |-> LoopThread] \in ioLog'
            /\ \/ /\ taskSt'[lastCall'.task] = "setup"
                  /\ numberTasks' = numberTasks + 1
                  /\ regResult'[lastCall'.task] = "true"
               \/ /\ taskSt'[lastCall'.task] = "deleted"
                  /\ numberTasks' = numberTasks
                  /\ regResult'[lastCall'.task] = "false"
      /\ (lastCall' # lastCall /\ lastCall'.op = "registerTask"
            /\ lastCall'.thread \in Others /\ ~stopped) =>
            /\ queue' = queue
            /\ taskSt' = taskSt
            /\ ioLog' = ioLog
            /\ numberTasks' = numberTasks
            /\ pcE'[lastCall'.thread] = [work |-> "SETUP", task |-> lastCall'.task]
      /\ (lastCall' # lastCall /\ lastCall'.op = "SETUP") =>
            /\ lastCall'.thread \in Others
            /\ pcE[lastCall'.thread] = [work |-> "SETUP", task |-> lastCall'.task]
            /\ pcE'[lastCall'.thread] = Idle
            /\ queue' = Append(queue, [work |-> "SETUP", task |-> lastCall'.task])
            /\ hasWork'
            /\ wake'
            /\ regResult'[lastCall'.task] = "true"
            /\ taskSt' = taskSt
            /\ ioLog' = ioLog
            /\ numberTasks' = numberTasks
    ]_vars

\* C11 witness: another thread has just finished a registerTask: its SETUP
\* command is the only element of the queue, the loop has been woken, the call
\* returned true and the task has not been set up
C11_Witness ==
  \E t \in Tasks, c \in Others :
    /\ lastCall = [thread |-> c, op |-> "SETUP", task |-> t, phase |-> 2]
    /\ queue = <<[work |-> "SETUP", task |-> t]>>
    /\ hasWork
    /\ wake
    /\ regResult[t] = "true"
    /\ taskSt[t] = "new"
    /\ ioLog = {}

\* C12: commands enter the queue at its end only; a turn of the drain loop
\* that finds a command removes the oldest one and executes it, and stays in
\* the drain loop; the thread leaves the drain loop, to test _stopping and
\* wait again or end, only in a turn that found the queue empty. A queue that
\* holds a command has _hasWork set, so the test of _hasWork never ends the
\* drain early.
C12_DrainInOrder ==
  [][ /\ queue # <<>> => hasWork
      /\ \/ queue' = queue
         \/ queue # <<>> /\ queue' = Tail(queue)
         \/ \E w \in {pcE[e] : e \in Others} : w # Idle /\ queue' = Append(queue, w)
      /\ (pcL = "drain" /\ pcL' # "drain") => (queue = <<>> /\ pcL' = "test")
      /\ (pcL' = "eventLoop" /\ pcL # "eventLoop") => (pcL = "test" /\ ~stopping)
      /\ (pcL' = "test" /\ pcL # "test") => (pcL = "spin" \/ (pcL = "drain" /\ queue = <<>>))
      /\ (lastCall'.op = "drain" /\ queue # <<>>) =>
            /\ pcL = "drain" /\ pcL' = "drain"
            /\ queue' = Tail(queue)
            /\ LET w == Head(queue)
                   d == delCnt'[w.task] - delCnt[w.task]
                   n == numberTasks' - numberTasks
               IN  CASE w.work = "SETUP" -> (n = 1 /\ d = 0) \/ (n = 0 /\ d = 1)
                     [] w.work = "CLEANUP" -> n = -1 /\ d = 0
                     [] w.work = "DESTROY" -> n = -1 /\ d = 1
                     [] OTHER -> FALSE
    ]_vars

\* C12 witness: the thread is in its drain loop, has just executed a SETUP
\* command while the CLEANUP command enqueued after it was waiting behind it,
\* and has not yet left the drain
C12_Witness ==
  \E t \in Tasks :
    /\ pcL = "drain"
    /\ lastCall.op = "drain"
    /\ queue = <<[work |-> "CLEANUP", task |-> t]>>
    /\ taskSt[t] = "setup"
    /\ numberTasks = 1

\* C13: once the thread has stopped and made its final drain, the command
\* queue is empty, whatever calls of registerTask, unregisterTask and
\* destroyTask ran beside it; a registerTask that finds the thread stopped
\* returns false and leaves no command behind.
C13_QueueEmptyAfterStop ==
  pcL = "ended" =>
     /\ stopped
     /\ queue = <<>>

\* C14: no task is deleted more than once, and when run() has ended and no
\* call is in progress, every task that was passed to destroyTask has been
\* deleted: by destroyTask itself, by a DESTROY command of the drain loop or
\* by the final drain.
C14_DestroyedOnce ==
  \A t \in Tasks :
    /\ delCnt[t] <= 1
    /\ (HasCalled(t, "destroy") /\ pcL = "ended" /\ \A e \in Others : pcE[e] = Idle)
          => delCnt[t] = 1

\* C15: the thread is in its loop (waiting, draining, or thrown out of the
\* wait) only when open() has been called; it leaves the start-up spin only
\* when open() or beginShutdown() has been called; _stopping is never reset
\* and the thread enters the event loop only from the test at line 246 with
\* _stopping false, so after a beginShutdown that came before open() it goes
\* from the spin to the end of run(), where _stopped is set, and never into
\* the event loop.
C15_OpenGatesLoop ==
  [][ /\ pcL' \in {"eventLoop", "drain", "threw"} => open'
      /\ (pcL = "spin" /\ pcL' # "spin") => (pcL' = "test" /\ (stopping \/ open))
      /\ stopping => stopping'
      /\ open => open'
      /\ (pcL # "eventLoop" /\ pcL' = "eventLoop") => (pcL = "test" /\ ~stopping /\ open)
      /\ (stopping /\ pcL \in {"spin", "test", "stop", "finalDrain", "ended"}) =>
            pcL' \in {"spin", "test", "stop", "finalDrain", "ended"}
      /\ (stopping /\ pcL = "test" /\ pcL' # "test") => pcL' = "stop"
      /\ pcL' \in {"finalDrain", "ended"} => stopped'
    ]_vars

\* C15 witness: beginShutdown was called and open() never was; run() has
\* ended with _stopped set, and no task was ever set up or cleaned up
C15_Witness ==
  /\ stopping
  /\ ~open
  /\ pcL = "ended"
  /\ stopped
  /\ ioLog = {}

C17_LoopException ==
  [][ /\ (lastCall'.op = "catch" /\ lastCall # lastCall') =>
            /\ pcL = "eventLoop"
            /\ pcL' = IF stopping THEN "threw" ELSE "drain"
            /\ <<queue, hasWork, stopping, stopped, numberTasks, taskSt, delCnt>>'
                 = <<queue, hasWork, stopping, stopped, numberTasks, taskSt, delCnt>>
      /\ (pcL = "drain" /\ pcL' # "drain") => (pcL' = "test" /\ queue = <<>>)
      /\ (pcL = "test" /\ pcL' # "test") =>
            pcL' = IF stopping THEN "stop" ELSE "eventLoop"
      /\ pcL = "threw" =>
            /\ pcL' = "threw"
            /\ stopped' = stopped
            /\ \/ queue' = queue
               \/ \E w \in {pcE[e] : e \in Others} : queue' = Append(queue, w)
      /\ pcL' = "threw" => (stopping' /\ ~stopped')
    ]_vars

\* C17 witness: the wait has just raised an exception with _stopping not set
\* and a command in the queue; the thread is in the drain loop
C17_Witness ==
  /\ lastCall.op = "catch"
  /\ pcL = "drain"
  /\ ~stopping
  /\ ~stopped
  /\ queue # <<>>

(***************************************************************************)
(* Properties of the WorkMonitor (SpecWork)                                *)
(***************************************************************************)

\* the descriptions reached from description d over _prev, at most n of them
RECURSIVE Chain(_, _)
Chain(d, n) == IF d = 0 \/ n = 0 THEN <<>> ELSE <<d>> \o Chain(descs[d].prev, n - 1)

\* the descriptions a thread's HandlerWorkStack objects have pushed, innermost
\* first, and then the thread's own
Pushed(w) ==
  [i \in 1 .. Len(scopes[w]) + 1 |->
     IF i > Len(scopes[w]) THEN ThreadDesc(w) ELSE scopes[w][Len(scopes[w]) + 1 - i].desc]

\* C18: on every thread the chain of active descriptions is that of its live
\* HandlerWorkStack objects, innermost first, each for the object's handler,
\* above the thread's own description; a pushHandler puts a description on top
\* of the current one; a popHandler or destroyHandler takes off the one on
\* top, which is the one the innermost object pushed and holds its handler
\* (no assertion fails), hands it to the freeable queue, and makes current the
\* description that was current before that object was made; so when work()
\* has returned or thrown, the description current before the call is current
\* again.
C18_StackPerThread ==
  [][ /\ \A w \in WThreads :
           /\ Chain(active[w], Len(descs) + 1) = Pushed(w)
           /\ \A i \in 1 .. Len(scopes[w]) :
                /\ descs[scopes[w][i].desc].type = "HANDLER"
                /\ descs[scopes[w][i].desc].handler = scopes[w][i].handler
                /\ scopes[w][i].before =
                     IF i = 1 THEN ThreadDesc(w) ELSE scopes[w][i - 1].desc
           /\ Len(scopes'[w]) = Len(scopes[w]) + 1 =>
                /\ SubSeq(scopes'[w], 1, Len(scopes[w])) = scopes[w]
                /\ active'[w] = Top(scopes'[w]).desc
                /\ descs'[active'[w]].prev = active[w]
                /\ Top(scopes'[w]).before = active[w]
           /\ Len(scopes'[w]) = Len(scopes[w]) - 1 =>
                /\ scopes'[w] = SubSeq(scopes[w], 1, Len(scopes[w]) - 1)
                /\ active[w] = Top(scopes[w]).desc
                /\ active'[w] = Top(scopes[w]).before
                /\ freeable' = Append(freeable, Top(scopes[w]).desc)
                /\ descs'[Top(scopes[w]).desc].handler = Top(scopes[w]).handler
           /\ Len(scopes'[w]) = Len(scopes[w]) => active'[w] = active[w]
      /\ ~assertFailed'
      /\ (pcW \in {"prepare", "execute", "catch", "finalize"}
            /\ pcW' \in {"worked", "threw"}) =>
            /\ Top(scopes[DispatcherThread]).handler = TheHandler
            /\ ~Top(scopes[DispatcherThread]).destroy
            /\ active'[DispatcherThread] = Top(scopes[DispatcherThread]).before
            /\ Len(scopes'[DispatcherThread]) = Len(scopes[DispatcherThread]) - 1
      /\ (pcW = "queued" /\ pcW' = "worked") => active' = active /\ scopes' = scopes
    ]_vars

\* C18 witness: work() was called under two HandlerWorkStack objects, the
\* inner one destroying, and has thrown; its description has gone to the
\* freeable queue and the inner object's description is current again
C18_Witness ==
  LET sc == scopes[DispatcherThread] IN
    /\ pcW = "threw"
    /\ Len(sc) = 2
    /\ sc[2].destroy
    /\ ~sc[1].destroy
    /\ active[DispatcherThread] = sc[2].desc
    /\ created = 3
    /\ freeable # <<>>
    /\ descs[Top(freeable)].handler = TheHandler
    /\ descs[Top(freeable)].prev = sc[2].desc
    /\ ~assertFailed

\* C19: only a step of the monitor's drain changes the number of deletions
\* of a handler; every deletion made is made by the monitor thread for a
\* description freed by destroyHandler or releaseHandler; no handler is
\* deleted twice; the drain of a description freed by popHandler deletes
\* nothing, the drain of a description freed by destroyHandler or
\* releaseHandler deletes its handler, once, and every drained description is
\* appended to the empty queue.
C19_MonitorDeletes ==
  [][ /\ \A r \in delLog' : r.thread = MonitorThread /\ r.via \in {"destroy", "release"}
      /\ \A h \in Handlers : hDel'[h] <= 1
      /\ hDel' # hDel => (freeable # <<>> /\ freeable' = Tail(freeable))
      /\ emptyQ' # emptyQ =>
            \/ emptyQ # <<>> /\ emptyQ' = Tail(emptyQ)
            \/ freeable # <<>> /\ freeable' = Tail(freeable)
      /\ (freeable # <<>> /\ freeable' = Tail(freeable)) =>
            LET d == Head(freeable)
                h == descs[d].handler
            IN  /\ emptyQ' = Append(emptyQ, d)
                /\ descs[d].via \in {"pop", "destroy", "release"}
                /\ descs[d].via = "pop" => (~descs[d].destroy /\ hDel' = hDel)
                /\ descs[d].via \in {"destroy", "release"} =>
                     /\ descs[d].destroy
                     /\ hDel[h] = 0
                     /\ hDel' = [hDel EXCEPT ![h] = 1]
    ]_vars

\* C19 witness: the monitor has drained everything: the description work()
\* popped, the one ~HttpServerJob released and the one a destroying
\* HandlerWorkStack freed; both handlers are deleted, once each
C19_Witness ==
  /\ freeable = <<>>
  /\ created = 3
  /\ Len(emptyQ) = 3
  /\ hDel = [h \in Handlers |-> 1]
  /\ delLog = {[handler |-> TheHandler, thread |-> MonitorThread, via |-> "release"],
               [handler |-> OtherHandler, thread |-> MonitorThread, via |-> "destroy"]}
  /\ pcW = "done"

(***************************************************************************)
(* Properties of the DispatcherQueue (SpecDisp)                            *)
(***************************************************************************)

\* C20: the queue never holds more than QueueSize Jobs and its workers never
\* execute more than QueueThreads Jobs, each Job being queued or executed at
\* most once at a time; a submission made while QueueSize Jobs are queued
\* ends with QUEUE_FULL and leaves the queue and the workers as they were,
\* and no other submission is rejected.
C20_BoundedQueue ==
  [][ /\ Len(dqJobs') <= QueueSize
      /\ Cardinality({j \in DJobs : dqStatus'[j] = "running"}) <= QueueThreads
      /\ \A j \in DJobs :
           /\ dqStatus'[j] = "queued" <=> \E i \in 1 .. Len(dqJobs') : dqJobs'[i] = j
           /\ dqStatus'[j] = "running" <=> \E t \in DWorkers : dqRunning'[t] = j
           /\ (dqStatus[j] = "new" /\ dqStatus'[j] # "new") =>
                IF Len(dqJobs) = QueueSize
                  THEN /\ dqStatus'[j] = "QUEUE_FULL"
                       /\ dqJobs' = dqJobs
                       /\ dqRunning' = dqRunning
                  ELSE /\ dqStatus'[j] = "queued"
                       /\ dqJobs' = Append(dqJobs, j)
    ]_vars

\* C20 witness: of three submissions one is executing, one is queued and one
\* was rejected with QUEUE_FULL
C20_Witness ==
  \E a, b, c \in DJobs :
    /\ dqStatus[a] = "running"
    /\ dqStatus[b] = "queued"
    /\ dqStatus[c] = "QUEUE_FULL"
    /\ dqJobs = <<b>>
    /\ \E t \in DWorkers : dqRunning[t] = a

(***************************************************************************)
(* Properties of the AsyncJobManager (SpecAsync)                           *)
(***************************************************************************)

\* an entry whose result has been published
Published(e) == e.status \in {"done", "error", "cancelled"}

Min(a, b) == IF a < b THEN a ELSE b

\* C22: for a counter created with initialValue <= maxValue the value never
\* exceeds maxValue; each call of next returns min(r, maxValue - value
\* before the call), r being the argument or 1 for 0, and advances the value
\* by what it returns, so that the sum of the returned amounts is the value
\* minus the initial value, and a call made at maxValue returns 0.
C22_NextReturnsMin ==
  /\ value <= maxValue
  /\ lastNext.calls > 0 =>
       /\ lastNext.ret = Min(lastNext.real, maxValue - lastNext.old)
       /\ lastNext.new = lastNext.old + lastNext.ret
       /\ lastNext.old = maxValue => lastNext.ret = 0
  /\ returned = value - initialValue

(***************************************************************************)
(* Properties of RestSimpleHandler::lookupByKeys (SpecLookup)              *)
(***************************************************************************)

\* C23: a lookup-by-keys request whose body is an object with a string
\* collection and an array keys is answered with 200 and the documents found
\* whenever the query succeeds; keys that name no document are left out and
\* cause no error.
C23_LookupAnswers ==
  ( /\ lkResponse # NoResponse
    /\ isObject(lkBody)
    /\ isString(get(lkBody, "collection"))
    /\ isArray(get(lkBody, "keys"))
    /\ lkCode = "TRI_ERROR_NO_ERROR" ) =>
      /\ lkResponse.code = "OK"
      /\ lkResponse.documents = SelectSeq2(get(lkBody, "keys").val, lkDocs)

(***************************************************************************)
(* Properties of RestQueryHandler::deleteQuery (SpecKill)                  *)
(***************************************************************************)

\* C24: DELETE /_api/query/{query-id} answers 404 when no query with the id
\* is found, 200 when the query was running and its kill flag was set, and
\* 400 only for a request whose number of URL suffixes is not one.
C24_KillAnswers ==
  /\ killRes = "TRI_ERROR_QUERY_NOT_FOUND" => delResponse = "NOT_FOUND"
  /\ killRes = "TRI_ERROR_NO_ERROR" => delResponse = "OK"
  /\ delResponse = "BAD" => Len(suffix) # 1

(***************************************************************************)
(* Properties of the hash index (SpecIndex)                                *)
(***************************************************************************)

\* the documents of the collection whose value is v
Holding(docs, v) == {k \in Keys : docs[k] = v}

\* C25: on a unique hash index, sparse or not, an insert whose value is not
\* null and equals the value of an existing document fails with error 1210
\* and changes neither the collection nor the index, so every lookup returns
\* what it returned before; an insert of a value no document has succeeds,
\* also after a failed insert.
C25_UniqueRejects ==
  [][(unique /\ lastOp'.op = "insert" /\ lastOp'.value \in Numbers) =>
       IF Holding(documents, lastOp'.value) # {}
         THEN /\ lastOp'.errorNum = UNIQUE_CONSTRAINT_VIOLATED
              /\ documents' = documents
              /\ entries' = entries
              /\ \A e \in Values :
                   mvccByExampleHash(entries', e) = mvccByExampleHash(entries, e)
         ELSE /\ lastOp'.errorNum = 0
              /\ documents' = [documents EXCEPT ![nextKey] = lastOp'.value]
              /\ mvccByExampleHash(entries', lastOp'.value) = {nextKey}]_vars

\* after a rejected insert, an insert of another value has succeeded
C25_Witness ==
  /\ unique
  /\ rejected
  /\ lastOp.op = "insert"
  /\ lastOp.errorNum = 0
  /\ lastOp.value \in Numbers
  /\ \E k \in Keys : documents[k] \in Numbers \ {lastOp.value}

\* the documents whose value is null or not bound
NullDocs(docs) == Holding(docs, NullValue) \cup Holding(docs, Unbound)

\* C26: on a non-sparse hash index a document without the attribute is
\* indexed like a document whose value is null: after any sequence of
\* inserts and removes the lookups by { value: null } and by { } both return
\* exactly the documents whose value is null or missing; on a unique
\* non-sparse index there is at most one such document, and an insert of
\* null or of a missing value fails with 1210 exactly while there is one.
C26_NonSparseNull ==
  [][~ sparse =>
       /\ mvccByExampleHash(entries', NullValue) = NullDocs(documents')
       /\ mvccByExampleHash(entries', Unbound) = NullDocs(documents')
       /\ unique => Cardinality(NullDocs(documents')) <= 1
       /\ (unique /\ lastOp'.op = "insert" /\ lastOp'.value \in {NullValue, Unbound}) =>
            (lastOp'.errorNum = UNIQUE_CONSTRAINT_VIOLATED
               <=> NullDocs(documents) # {})]_vars

\* on a unique non-sparse index holding a document without the attribute, an
\* insert of null has been rejected
C26_Witness ==
  /\ ~ sparse
  /\ unique
  /\ lastOp = [op |-> "insert", value |-> NullValue,
               errorNum |-> UNIQUE_CONSTRAINT_VIOLATED]
  /\ Holding(documents, Unbound) # {}
  /\ mvccByExampleHash(entries, NullValue) = Holding(documents, Unbound)

\* C27: on a sparse hash index the documents whose value is null or missing
\* are not indexed: after any sequence of inserts and removes the lookups by
\* { value: null } and by { } return nothing, a lookup by another value
\* returns the documents that have it, and an insert of null or of a missing
\* value succeeds without a unique-constraint error, whatever the collection
\* holds and whether the index is unique or not.
C27_SparseSkipsNull ==
  [][sparse =>
       /\ mvccByExampleHash(entries', NullValue) = {}
       /\ mvccByExampleHash(entries', Unbound) = {}
       /\ \A v \in Numbers : mvccByExampleHash(entries', v) = Holding(documents', v)
       /\ (lastOp'.op = "insert" /\ lastOp'.value \in {NullValue, Unbound}) =>
            /\ lastOp'.errorNum = 0
            /\ documents' = [documents EXCEPT ![nextKey] = lastOp'.value]
            /\ entries' = entries]_vars

\* a unique sparse index whose collection holds two documents with a null or
\* missing value beside an indexed one
C27_Witness ==
  /\ sparse
  /\ unique
  /\ Cardinality(NullDocs(documents)) >= 2
  /\ \E v \in Numbers : mvccByExampleHash(entries, v) # {}
  /\ lastOp.op = "insert"
  /\ lastOp.value \in {NullValue, Unbound}

(***************************************************************************)
(* Further properties of HttpServerJob (SpecJob)                           *)
(***************************************************************************)

\* C28: work() skips the execution exactly when the Job is not detached and
\* its task pointer is null at the check of line 127; it then returns
\* JOB_DONE and calls none of prepareExecute, execute, finalizeExecute.  A
\* detached Job, whose task pointer is always null, always executes its
\* handler.
C28_SkipIffTaskGone ==
  [][/\ (pcW = "queued" /\ pcW' # "queued") =>
          /\ (pcW' = "worked") <=> (~ detached /\ task = NULL)
          /\ pcW' = "worked" =>
               /\ workResult' = "JOB_DONE"
               /\ prepareCnt' = 0 /\ executeCnt' = 0 /\ finalizeCnt' = 0
          /\ pcW' # "worked" => pcW' = "prepare"
     /\ detached' => task' = NULL
     /\ (detached' /\ pcW' \notin {"queued", "prepare", "execute"}) => executeCnt' = 1
     /\ (executeCnt' = 0 /\ pcW' \notin {"queued", "prepare", "execute"}) =>
          /\ prepareCnt' = 0 /\ finalizeCnt' = 0
          /\ workResult' = "JOB_DONE"
          /\ ctorTask' # NULL]_vars

\* work() has returned JOB_DONE for a Job whose task was taken away before
\* the check, without having called the handler
C28_Witness ==
  /\ ctorTask # NULL
  /\ ~ detached
  /\ task = NULL
  /\ pcW = "worked"
  /\ workResult = "JOB_DONE"
  /\ prepareCnt = 0 /\ executeCnt = 0 /\ finalizeCnt = 0

(***************************************************************************)
(* Further properties of SchedulerThread (SpecSchedLive)                   *)
(***************************************************************************)

\* the command op for task t waits in the queue
Queued(t, op) == \E i \in 1 .. Len(queue) : queue[i] = [work |-> op, task |-> t]

\* C29: no wakeup is lost.  Whenever the scheduler thread is about to wait
\* or waits in the event loop while a command is queued, a wakeup is pending
\* (the command was enqueued after the drain loop saw the queue empty, and
\* its wakeup was issued under the same lock); and while the thread is
\* running and not stopping, a queue that holds commands is eventually
\* worked off, so that every queued command is eventually taken out and
\* executed by the loop thread.
C29_NoLostWakeup ==
  /\ []((pcL \in {"test", "eventLoop"} /\ queue # <<>>) => wake)
  /\ (queue # <<>>) ~> (queue = <<>> \/ stopping \/ pcL = "spin")

\* a command has been enqueued while the thread waited in the event loop
C29_Witness ==
  /\ pcL = "eventLoop"
  /\ ~ stopping
  /\ lastCall.phase = 2
  /\ lastCall.thread \in Others
  /\ Queued(lastCall.task, lastCall.op)
  /\ wake

\* C30: a task for which registerTask returned true is not dropped.  Once
\* its SETUP command has left the queue, the task has been set up on the loop
\* (setupTask was run for it) or it has been deleted; this includes a command
\* that is taken out by the loop that empties the queue after the thread has
\* been told to stop.
C30_RegisteredNotDropped ==
  \A t \in Tasks :
    (regResult[t] = "true" /\ ~ Queued(t, "SETUP"))
      => (setupOk[t] # "none" \/ delCnt[t] > 0)

\* C31: whenever run() has ended, by the normal path or by the exception
\* that is thrown on from the catch clause, the stopped flag is true (so that
\* later registerTask calls return false and later destroyTask calls delete
\* their task directly).
C31_EndedIsStopped ==
  pcL \in {"ended", "threw"} => stopped

\* C32: the task counter equals the number of tasks that are set up on the
\* loop, and it is never negative.
C32_NumberTasksCounts ==
  /\ numberTasks = Cardinality({t \in Tasks : taskSt[t] = "setup"})
  /\ numberTasks >= 0

\* C33: cancel() on a Job that exists never goes through a null handler
\* pointer, also when it arrives after cleanup has handed the handler to the
\* task.
C33_CancelSafe ==
  cancelSeen # NULL

\* C34: beginShutdown terminates.  The flag it spins on is set only inside
\* cleanup of a Job that is not detached; once beginShutdown is past the spin
\* the task pointer is null; and under fair scheduling a beginShutdown that
\* waits in the spin leaves it and sets the task pointer to null.
C34_ShutdownTerminates ==
  /\ [](isInCleanup =>
         (~ detached /\ pcW \in {"check", "setHandler", "nullHandler", "signal",
                                  "clear", "crashed"}))
  /\ [](pcS \in {"dec", "returned", "done"} => task = NULL)
  /\ (pcS = "spin") ~> (pcS = "dec" /\ task = NULL)

\* beginShutdown waits in the spin while cleanup is under way
C34_Witness ==
  /\ pcS = "spin"
  /\ isInCleanup
  /\ pcW \in {"check", "setHandler", "nullHandler", "signal", "clear"}

\* C35: after beginShutdown the thread eventually sets stopped, unless the
\* event loop raises an exception; stopping and stopped are never reset.
C35_ShutdownStops ==
  /\ [][(stopping => stopping') /\ (stopped => stopped')]_vars
  /\ stopping ~> (stopped \/ pcL = "threw")

\* beginShutdown was called while the thread waited in the event loop, and
\* the thread has ended run() with the queue drained
C35_Witness ==
  /\ open
  /\ stopping
  /\ stopped
  /\ pcL = "ended"
  /\ ioLog # {}

\* C36: a result QUERY_KILLED is answered as REQUEST_CANCELED only if a
\* cancel() on this handler found a registered query; a query killed in
\* another way, with no such cancel(), is answered with its own code; and the
\* canceled mark of the handler is never cleared.
C36_CanceledOnlyByCancel ==
  /\ [][queryKilled => queryKilled']_vars
  /\ []((response = "REQUEST_CANCELED" /\ qCode = "QUERY_KILLED")
          => \E e \in cancelLog : e.ret)
  /\ []((response # "none" /\ qCode = "QUERY_KILLED" /\ ~ queryKilled)
          => response = "QUERY_KILLED")

\* a query killed by cancel() alone has been answered as canceled
C36_Witness ==
  /\ pcH = "done"
  /\ qCode = "QUERY_KILLED"
  /\ ~ killedElsewhere
  /\ queryKilled
  /\ response = "REQUEST_CANCELED"

(***************************************************************************)
(* Properties of the velocypack library                                    *)
(***************************************************************************)

\* number of entries of an object that have the name k
Count(obj, k) == Cardinality({i \in 1 .. Len(obj.val) : obj.val[i].key = k})

\* C37: the object merge returns for two objects contains every attribute
\* name of left or of right exactly once, and no other name; a name of one
\* side only has that side's value, a name of both sides has right's value
\* or, with mergeValues and two objects, an object with the names of both
\* values.
C37_MergeOnce ==
  (mgResult # NoneSlice) =>
    /\ NamesOf(mgResult) = NamesOf(mgLeft) \cup NamesOf(mgRight)
    /\ \A k \in NamesOf(mgLeft) \cup NamesOf(mgRight) :
         /\ Count(mgResult, k) = 1
         /\ LET v == ValueOf(mgResult, k) IN
              IF k \notin NamesOf(mgRight) THEN v = ValueOf(mgLeft, k)
              ELSE IF k \notin NamesOf(mgLeft) THEN v = ValueOf(mgRight, k)
              ELSE IF /\ mgMergeValues
                      /\ isObject(ValueOf(mgLeft, k))
                      /\ isObject(ValueOf(mgRight, k))
                THEN /\ isObject(v)
                     /\ NamesOf(v) = NamesOf(ValueOf(mgLeft, k)) \cup NamesOf(ValueOf(mgRight, k))
                     /\ \A n \in NamesOf(v) : Count(v, n) = 1
                ELSE v = ValueOf(mgRight, k)

\* the least number of bytes that holds v in two's complement
LeastBytes(v) ==
  CHOOSE n \in 1 .. IntBytes :
    /\ - (2 ^ (n * ByteBits - 1)) <= v /\ v <= 2 ^ (n * ByteBits - 1) - 1
    /\ \A k \in 1 .. (n - 1) :
         ~ (- (2 ^ (k * ByteBits - 1)) <= v /\ v <= 2 ^ (k * ByteBits - 1) - 1)

\* C38: what addInt(v) wrote is read back by getInt as v; the values from
\* -6 to 9 are written as a SmallInt of one byte, the others as an Int of the
\* least number of bytes that holds v in two's complement, the least
\* significant byte first; and ToInt64(ToUInt64(v)) = v.
C38_IntRoundTrip ==
  /\ ToInt64(ToUInt64(aiValue)) = aiValue
  /\ (aiSlice # NoneSlice) =>
       IF aiValue >= -6 /\ aiValue <= 9
         THEN aiSlice.head \in 48 .. 63 /\ aiSlice.val = <<>>
         ELSE /\ aiSlice.head = 31 + LeastBytes(aiValue)
              /\ Len(aiSlice.val) = LeastBytes(aiValue)
              /\ \A i \in 1 .. Len(aiSlice.val) :
                   aiSlice.val[i] = ((aiValue + WordMod) \div (ByteMod ^ (i - 1))) % ByteMod
  /\ (aiRead # NotRead) => aiRead = Returned(aiValue)

\* a negative value that needs more than one byte and less than the full
\* width has been written and read back
C38_Witness ==
  /\ aiValue < - (ByteMod \div 2)
  /\ aiSlice.head = 33
  /\ aiRead = Returned(aiValue)

(***************************************************************************)
(* Further properties of the WorkMonitor (SpecWork)                        *)
(***************************************************************************)

\* number of times description d is in queue q
Occurrences(q, d) == Cardinality({i \in 1 .. Len(q) : q[i] = d})

\* the threads that have description d on their chain of active descriptions
ThreadsWith(d) ==
  {w \in WThreads :
     \E i \in 1 .. Len(Chain(active[w], Len(descs) + 1)) :
       Chain(active[w], Len(descs) + 1)[i] = d}

\* C39: every description is in exactly one place: on the chain of active
\* descriptions of one thread, once in the queue of freeable descriptions, or
\* once in the queue of empty ones (so that createWorkDescription, which
\* takes from the empty queue, hands out none that is on a chain); and a
\* description that createWorkDescription has handed out, new or reused, has
\* destroy = true and as prev the description that was active on the calling
\* thread, until popHandler takes it off.
C39_OnePlace ==
  /\ \A d \in 1 .. Len(descs) :
       Cardinality(ThreadsWith(d)) + Occurrences(freeable, d) + Occurrences(emptyQ, d) = 1
  /\ \A w \in WThreads : \A i \in 1 .. Len(scopes[w]) :
       /\ descs[scopes[w][i].desc].destroy
       /\ descs[scopes[w][i].desc].prev = scopes[w][i].before
  /\ \A i \in 1 .. Len(freeable) :
       descs[freeable[i]].via \in {"release", "destroy"} => descs[freeable[i]].destroy

\* the one description for handlers that was ever allocated has been handed
\* out again and is on the chain of the dispatcher thread
C39_Witness ==
  /\ Len(descs) = Cardinality(WThreads) + 1
  /\ created >= 2
  /\ scopes[DispatcherThread] # <<>>
  /\ active[DispatcherThread] = Len(descs)
  /\ freeable = <<>>
  /\ emptyQ = <<>>

\* C40: every Buffer has _alloc >= sizeof(_local) and _alloc >= _pos, and no
\* VELOCYPACK_ASSERT of reserve fails, after any sequence of constructions,
\* copies, moves, assignments, appends, reserves, preallocs and resets
C40_AllocCoversLocal ==
  /\ \A i \in BufferIds :
       buffers[i] # NoBuffer =>
         /\ buffers[i].alloc >= LocalSize
         /\ buffers[i].alloc >= buffers[i].pos
  /\ ~asserted

====
